---------------------------- MODULE Spec2Model ----------------------------
(***************************************************************************)
(* A model of the Lox tree-walking interpreter: the driver Lox::run        *)
(* (src/src/main.rs), the evaluator (src/src/interpreter.rs) and its       *)
(* Environment (src/src/environment.rs), over the AST types of             *)
(* src/src/parser.rs.                                                      *)
(*                                                                         *)
(* The scanner and the parser appear here by their effect on the driver:   *)
(* whether they reported an error (Lox::report sets has_error), whether    *)
(* Parser::primary ended the process, and the declarations handed to       *)
(* Interpreter::interpret.  The declarations are drawn one at a time, as   *)
(* the iterator of Interpreter::interpret consumes them.                   *)
(***************************************************************************)
EXTENDS Integers, Sequences, FiniteSets, TLC

(***************************************************************************)
(* Bounds of the model.                                                    *)
(***************************************************************************)
\* Top-level declarations of one program.
MaxDecls == 2
\* Iterations one while statement may run before the model stops following it.
MaxIter == 3

(***************************************************************************)
(* Object (parser.rs:166-172): Number(f32), String, Boolean, Nil.          *)
(* A Number is kept as an exact fraction <<numerator, denominator>> in     *)
(* lowest terms with a positive denominator.  Every number the bounded     *)
(* programs below reach is a small dyadic fraction or a small integer,     *)
(* which f32 holds exactly, so f32 arithmetic and comparison agree with    *)
(* the exact ones on them.                                                 *)
(***************************************************************************)
Abs(i) == IF i < 0 THEN -i ELSE i

RECURSIVE Gcd(_, _)
Gcd(a, b) == IF b = 0 THEN a ELSE Gcd(b, a % b)

Frac(n, d) ==
    LET g == Gcd(Abs(n), Abs(d))
        s == IF d < 0 THEN -1 ELSE 1
    IN  <<(s * n) \div g, (s * d) \div g>>

Number(n) == [t |-> "Number", v |-> Frac(n, 1)]
NumberQ(q) == [t |-> "Number", v |-> q]
String(s) == [t |-> "String", v |-> s]
Boolean(b) == [t |-> "Boolean", v |-> b]
Nil == [t |-> "Nil", v |-> 0]

FAdd(p, q) == Frac(p[1] * q[2] + q[1] * p[2], p[2] * q[2])
FSub(p, q) == Frac(p[1] * q[2] - q[1] * p[2], p[2] * q[2])
FMul(p, q) == Frac(p[1] * q[1], p[2] * q[2])
FDiv(p, q) == Frac(p[1] * q[2], p[2] * q[1])
FNeg(p) == <<-p[1], p[2]>>
FLess(p, q) == p[1] * q[2] < q[1] * p[2]
FIsZero(p) == p[1] = 0

(***************************************************************************)
(* Expr (parser.rs:84-113).  An operator is a &Token of which the          *)
(* evaluator reads only token_type; it is kept as the TokenType's name.    *)
(***************************************************************************)
Literal(value) == [type |-> "Literal", value |-> value]
Unary(operator, right) == [type |-> "Unary", operator |-> operator, right |-> right]
Binary(left, operator, right) ==
    [type |-> "Binary", left |-> left, operator |-> operator, right |-> right]
Grouping(expression) == [type |-> "Grouping", expression |-> expression]
Variable(identifier) == [type |-> "Variable", identifier |-> identifier]
Assign(identifier, value) == [type |-> "Assign", identifier |-> identifier, value |-> value]
Logical(left, operator, right) ==
    [type |-> "Logical", left |-> left, operator |-> operator, right |-> right]

(***************************************************************************)
(* Statement and Declaration (parser.rs:9-64).  An Option is a sequence of *)
(* length 0 (None) or 1 (Some).                                            *)
(***************************************************************************)
ExprStmt(expr) == [type |-> "ExprStmt", expr |-> expr]
PrintStmt(expr) == [type |-> "PrintStmt", expr |-> expr]
IfStmt(condition, then_branch, else_branch) ==
    [type |-> "IfStmt", condition |-> condition, then_branch |-> then_branch,
     else_branch |-> else_branch]
WhileStmt(condition, block) ==
    [type |-> "WhileStmt", condition |-> condition, block |-> block]
Block(decls) == [type |-> "Block", decls |-> decls]

DeclStatement(stmt) == [type |-> "Statement", stmt |-> stmt]
DeclVarDecl(expr) == [type |-> "VarDecl", expr |-> expr]

\* What Parser::vardecl builds (parser.rs:278-300): Unary{var, primary}, or
\* Unary{var, Binary{primary, =, initializer}}.
VarDeclNoInit(primary) == DeclVarDecl(Unary("VAR", primary))
VarDeclInit(primary, expr) == DeclVarDecl(Unary("VAR", Binary(primary, "EQUAL", expr)))

(***************************************************************************)
(* Environment (environment.rs:6-37): a map and an optional enclosing      *)
(* Environment.                                                            *)
(***************************************************************************)
EmptyMap == [n \in {} |-> Nil]

\* Environment::new (environment.rs:11-16)
EnvironmentNew == [map |-> EmptyMap, enclosing |-> <<>>]

\* The results of the evaluator: Ok(val), Err(RuntimeError{message}) or a
\* panic (unreachable!(), unwrap() on an Err), each with the Environment as
\* the call left it and the calls made on the way (trace).
Ok(val, env, trace) == [tag |-> "Ok", val |-> val, msg |-> "", env |-> env, trace |-> trace]
Err(msg, env, trace) == [tag |-> "Err", val |-> Nil, msg |-> msg, env |-> env, trace |-> trace]
Panic(env, trace) == [tag |-> "Panic", val |-> Nil, msg |-> "", env |-> env, trace |-> trace]

\* Environment::get (environment.rs:17-28): the own map first, then the
\* enclosing Environment; the value, or <<>> when no map of the chain has it.
RECURSIVE Lookup(_, _)
Lookup(env, identifier) ==
    IF identifier \in DOMAIN env.map THEN <<env.map[identifier]>>
    ELSE IF env.enclosing # <<>> THEN Lookup(env.enclosing[1], identifier)
    ELSE <<>>

UndefinedVariable(identifier) == "Undefined variable " \o identifier \o "."

\* A get that binds a missing identifier to Nil instead of failing.
EnvGetBinding(env, identifier) ==
    LET found == Lookup(env, identifier)
    IN  IF found # <<>> THEN Ok(found[1], env, <<>>)
        ELSE Ok(Nil, [env EXCEPT !.map = (identifier :> Nil) @@ @], <<>>)

EnvGet(env, identifier) ==
    LET found == Lookup(env, identifier)
    IN  IF found # <<>> THEN Ok(found[1], env, <<>>)
        ELSE Err(UndefinedVariable(identifier), env, <<>>)

\* A set that writes a name only where the map does not hold it yet.
RECURSIVE EnvSetAbsentOnly(_, _, _)
EnvSetAbsentOnly(env, identifier, object) ==
    [map |-> IF identifier \in DOMAIN env.map THEN env.map
             ELSE (identifier :> object) @@ env.map,
     enclosing |-> IF env.enclosing # <<>>
                   THEN <<EnvSetAbsentOnly(env.enclosing[1], identifier, object)>>
                   ELSE <<>>]

\* Environment::set (environment.rs:30-36): insert into the own map and into
\* every enclosing Environment.
RECURSIVE EnvSet(_, _, _)
EnvSet(env, identifier, object) ==
    [map |-> (identifier :> object) @@ env.map,
     enclosing |-> IF env.enclosing # <<>>
                   THEN <<EnvSet(env.enclosing[1], identifier, object)>>
                   ELSE <<>>]

(***************************************************************************)
(* The expression evaluator (interpreter.rs:59-239).  Every operator takes *)
(* the Environment it starts from and returns a result carrying the        *)
(* Environment it leaves.  The trace of a result lists, in order, the      *)
(* calls of visit_print_stmt (op "visit") and of Environment::set (op      *)
(* "set", with decl TRUE when visit_var_decl made it).                     *)
(***************************************************************************)
Visit(expr) == [op |-> "visit", expr |-> expr, identifier |-> "", object |-> Nil, decl |-> FALSE]
SetCall(identifier, object, decl) ==
    [op |-> "set", expr |-> Literal(Nil), identifier |-> identifier, object |-> object,
     decl |-> decl]

After(prefix, res) == [res EXCEPT !.trace = prefix \o @]

\* Interpreter::is_truthy (interpreter.rs:152-158)
IsTruthy(obj) ==
    CASE obj.t = "Nil" -> FALSE
      [] obj.t = "Boolean" -> obj.v
      [] OTHER -> TRUE

\* The match on the two operand values in Interpreter::visit_binary
\* (interpreter.rs:107-149).
BinaryOnValues(operator, left, right, env) ==
    CASE left.t = "Number" /\ right.t = "Number" ->
           CASE operator = "PLUS" -> Ok(NumberQ(FAdd(left.v, right.v)), env, <<>>)
             [] operator = "MINUS" -> Ok(NumberQ(FSub(left.v, right.v)), env, <<>>)
             [] operator = "STAR" -> Ok(NumberQ(FMul(left.v, right.v)), env, <<>>)
             [] operator = "SLASH" ->
                  IF FIsZero(right.v) THEN Err("Division by zero.", env, <<>>)
                  ELSE Ok(NumberQ(FDiv(left.v, right.v)), env, <<>>)
             [] operator = "LESS_EQUAL" -> Ok(Boolean(~FLess(right.v, left.v)), env, <<>>)
             [] operator = "LESS" -> Ok(Boolean(FLess(left.v, right.v)), env, <<>>)
             [] operator = "EQUAL_EQUAL" -> Ok(Boolean(left.v = right.v), env, <<>>)
             [] operator = "BANG_EQUAL" -> Ok(Boolean(left.v # right.v), env, <<>>)
             [] operator = "GREATER_EQUAL" -> Ok(Boolean(~FLess(left.v, right.v)), env, <<>>)
             [] operator = "GREATER" -> Ok(Boolean(FLess(right.v, left.v)), env, <<>>)
             [] OTHER -> Err("Invalid binary operator for numbers.", env, <<>>)
      [] left.t = "String" /\ right.t = "String" ->
           CASE operator = "PLUS" -> Ok(String(left.v \o right.v), env, <<>>)
             [] operator = "EQUAL_EQUAL" -> Ok(Boolean(left.v = right.v), env, <<>>)
             [] operator = "BANG_EQUAL" -> Ok(Boolean(left.v # right.v), env, <<>>)
             [] OTHER -> Err("Invalid binary operator for strings.", env, <<>>)
      [] operator = "EQUAL_EQUAL" -> Ok(Boolean(FALSE), env, <<>>)
      [] OTHER -> Err("Invalid operands for binary operator.", env, <<>>)

RECURSIVE VisitPrintStmt(_, _)
RECURSIVE EnsureLiteral(_, _)
RECURSIVE VisitLogical(_, _, _, _)
RECURSIVE VisitAssignment(_, _, _)

\* Interpreter::ensure_literal (interpreter.rs:59-75): visit_print_stmt until
\* the expression is a Literal; its value.
EnsureLiteral(expr, env) ==
    IF expr.type = "Literal" THEN Ok(expr.value, env, <<>>)
    ELSE LET r == VisitPrintStmt(expr, env)
         IN  IF r.tag # "Ok" THEN r
             ELSE After(r.trace, EnsureLiteral(r.val, r.env))

\* Interpreter::visit_unary (interpreter.rs:77-97)
VisitUnary(operator, right, env) ==
    LET r == EnsureLiteral(right, env)
    IN  IF r.tag # "Ok" THEN r
        ELSE CASE operator = "BANG" -> Ok(Boolean(~IsTruthy(r.val)), r.env, r.trace)
               [] operator = "MINUS" ->
                    IF r.val.t = "Number" THEN Ok(NumberQ(FNeg(r.val.v)), r.env, r.trace)
                    ELSE Err("Operand must be a number.", r.env, r.trace)
               [] OTHER -> Err("Invalid unary operator.", r.env, r.trace)

\* Interpreter::visit_binary (interpreter.rs:98-150)
VisitBinary(operator, left, right, env) ==
    LET l == EnsureLiteral(left, env)
    IN  IF l.tag # "Ok" THEN l
        ELSE LET r == After(l.trace, EnsureLiteral(right, l.env))
             IN  IF r.tag # "Ok" THEN r
                 ELSE After(r.trace, BinaryOnValues(operator, l.val, r.val, r.env))

\* Interpreter::visit_grouping (interpreter.rs:160-162)
VisitGrouping(expr, env) == EnsureLiteral(expr, env)

\* Interpreter::visit_assignment (interpreter.rs:163-176): the value, then
\* Environment::set, whatever the Environment holds; Assign{identifier,
\* Literal}.
VisitAssignment(identifier, value, env) ==
    LET r == EnsureLiteral(value, env)
    IN  IF r.tag # "Ok" THEN r
        ELSE Ok(Assign(identifier, Literal(r.val)),
                EnvSet(r.env, identifier, r.val),
                Append(r.trace, SetCall(identifier, r.val, FALSE)))

\* visit_logical without the early returns: the right operand is evaluated
\* whatever the left one is, and decides only when the left one does not.
VisitLogicalEager(left, operator, right, env) ==
    LET l == EnsureLiteral(left, env)
    IN  IF l.tag # "Ok" THEN l
        ELSE LET r == After(l.trace, VisitPrintStmt(right, l.env))
             IN  IF r.tag # "Ok" THEN r
                 ELSE IF operator = "OR" /\ IsTruthy(l.val) THEN [r EXCEPT !.val = Literal(l.val)]
                 ELSE IF operator = "AND" /\ ~IsTruthy(l.val)
                      THEN [r EXCEPT !.val = Literal(l.val)]
                 ELSE r

\* Interpreter::visit_logical (interpreter.rs:190-200)
VisitLogical(left, operator, right, env) ==
    LET l == EnsureLiteral(left, env)
    IN  IF l.tag # "Ok" THEN l
        ELSE IF operator = "OR" /\ IsTruthy(l.val) THEN Ok(Literal(l.val), l.env, l.trace)
        ELSE IF operator # "OR" /\ operator = "AND" /\ ~IsTruthy(l.val)
             THEN Ok(Literal(l.val), l.env, l.trace)
        ELSE After(l.trace, VisitPrintStmt(right, l.env))

\* Lifts a Result<Object> to the Result<Expr> Literal{value}.
AsLiteral(r) == IF r.tag = "Ok" THEN [r EXCEPT !.val = Literal(@)] ELSE r

\* Interpreter::visit_print_stmt (interpreter.rs:202-239): the evaluation of
\* any expression to a Literal.
VisitPrintStmt(expr, env) ==
    After(<<Visit(expr)>>,
      CASE expr.type = "Literal" -> Ok(Literal(expr.value), env, <<>>)
        [] expr.type = "Unary" -> AsLiteral(VisitUnary(expr.operator, expr.right, env))
        [] expr.type = "Binary" ->
             AsLiteral(VisitBinary(expr.operator, expr.left, expr.right, env))
        [] expr.type = "Grouping" -> AsLiteral(VisitGrouping(expr.expression, env))
        [] expr.type = "Variable" -> AsLiteral(EnvGet(env, expr.identifier))
        [] expr.type = "Assign" ->
             LET a == VisitAssignment(expr.identifier, expr.value, env)
             IN  IF a.tag # "Ok" THEN a ELSE [a EXCEPT !.val = a.val.value]
        [] expr.type = "Logical" ->
             VisitLogical(expr.left, expr.operator, expr.right, env))

\* Interpreter::visit_expr_stmt (interpreter.rs:178-188): Assign and Logical
\* are handled, every other expression reaches unreachable!().
VisitExprStmt(expr, env) ==
    CASE expr.type = "Assign" -> VisitAssignment(expr.identifier, expr.value, env)
      [] expr.type = "Logical" -> VisitLogical(expr.left, expr.operator, expr.right, env)
      [] OTHER -> Panic(env, <<>>)

\* Interpreter::visit_var_decl (interpreter.rs:324-351): Variable(identifier)
\* for a declaration that bound identifier.
VisitVarDecl(decl, env) ==
    IF decl.type # "Unary" THEN Panic(env, <<>>)
    ELSE IF decl.right.type = "Variable"
         THEN Ok(Variable(decl.right.identifier),
                 EnvSet(env, decl.right.identifier, Nil),
                 <<SetCall(decl.right.identifier, Nil, TRUE)>>)
    ELSE IF decl.right.type = "Binary"
         THEN LET r == EnsureLiteral(decl.right.right, env)
              IN  IF r.tag # "Ok" THEN r
                  ELSE IF decl.right.left.type = "Variable"
                       THEN Ok(Variable(decl.right.left.identifier),
                               EnvSet(r.env, decl.right.left.identifier, r.val),
                               Append(r.trace,
                                      SetCall(decl.right.left.identifier, r.val, TRUE)))
                       ELSE Panic(r.env, r.trace)
    ELSE Panic(env, <<>>)

(***************************************************************************)
(* The statement evaluator (interpreter.rs:241-322).  A statement runs     *)
(* from a state s = [env, out, clock, trace]: the Environment, the lines   *)
(* written to standard output so far (visit_while_stmt prints as it runs), *)
(* the number of results yielded so far, and the trace.  Its result is     *)
(* Ok(exprs), Err, a panic, or "Fuel" when a while statement is still      *)
(* running after MaxIter iterations.  Each yielded Expr is stamped with    *)
(* the clock value at which its statement produced it and with the kind of *)
(* that statement (by).                                                    *)
(***************************************************************************)
State(env, out, clock, trace) == [env |-> env, out |-> out, clock |-> clock, trace |-> trace]
Stamped(seq, by, expr) == [seq |-> seq, by |-> by, expr |-> expr]
SOk(exprs, s) == [tag |-> "Ok", exprs |-> exprs, msg |-> "", s |-> s]
SFail(tag, msg, s) == [tag |-> tag, exprs |-> <<>>, msg |-> msg, s |-> s]

\* An expression's result r, evaluated from state s by a statement of kind
\* by, as the statement result that yields the one Expr r.val.
Yield(r, by, s) ==
    LET s1 == State(r.env, s.out, s.clock, s.trace \o r.trace)
    IN  IF r.tag = "Ok"
        THEN SOk(<<Stamped(s.clock, by, r.val)>>, [s1 EXCEPT !.clock = @ + 1])
        ELSE SFail(r.tag, r.msg, s1)

RECURSIVE VisitStmt(_, _)
RECURSIVE BlockFrom(_, _, _, _)
RECURSIVE WhileLoop(_, _, _)

\* The loop of Interpreter::visit_block_stmt (interpreter.rs:245-258) from
\* its i-th declaration on, with the results pushed so far.  No Environment
\* is created for the block.
BlockFrom(decls, i, results, s) ==
    IF i > Len(decls) THEN SOk(results, s)
    ELSE LET decl == decls[i]
             r == IF decl.type = "VarDecl"
                  THEN Yield(VisitVarDecl(decl.expr, s.env), "VarDecl", s)
                  ELSE VisitStmt(decl.stmt, s)
         IN  IF r.tag # "Ok" THEN r
             ELSE BlockFrom(decls, i + 1, results \o r.exprs, r.s)

\* Interpreter::visit_block_stmt (interpreter.rs:241-259)
VisitBlockStmt(decls, s) == BlockFrom(decls, 1, <<>>, s)

\* The loop of Interpreter::visit_while_stmt (interpreter.rs:264-277) with
\* fuel iterations left to follow: the condition through visit_print_stmt
\* and unwrap(), the body, then println! of each Expr the body yielded.
WhileLoop(while_, s, fuel) ==
    LET c == VisitPrintStmt(while_.condition, s.env)
        s1 == State(c.env, s.out, s.clock, s.trace \o c.trace)
    IN  IF c.tag # "Ok" THEN SFail("Panic", "", s1)
        ELSE IF ~(c.val.type = "Literal" /\ IsTruthy(c.val.value)) THEN SOk(<<>>, s1)
        ELSE IF fuel = 0 THEN SFail("Fuel", "", s1)
        ELSE LET b == VisitStmt(while_.block, s1)
             IN  IF b.tag # "Ok" THEN b
                 ELSE WhileLoop(while_, [b.s EXCEPT !.out = @ \o b.exprs], fuel - 1)

\* Interpreter::visit_while_stmt (interpreter.rs:261-279)
VisitWhileStmt(while_, s) == WhileLoop(while_, s, MaxIter)

\* Interpreter::visit_if_stmt (interpreter.rs:281-300)
VisitIfStmt(if_, s) ==
    LET c == VisitPrintStmt(if_.condition, s.env)
        s1 == State(c.env, s.out, s.clock, s.trace \o c.trace)
    IN  IF c.tag # "Ok" THEN SFail(c.tag, c.msg, s1)
        ELSE IF c.val.type # "Literal"
             THEN SFail("Err", "Expected result of condition to be boolean or nil", s1)
        ELSE LET branch == IF IsTruthy(c.val.value) THEN <<if_.then_branch>>
                           ELSE if_.else_branch
             IN  IF branch = <<>>
                 THEN SOk(<<Stamped(s1.clock, "IfStmt", Literal(Nil))>>,
                          [s1 EXCEPT !.clock = @ + 1])
                 ELSE VisitStmt(branch[1], s1)

\* Interpreter::visit_stmt (interpreter.rs:302-322)
VisitStmt(stmt, s) ==
    CASE stmt.type = "PrintStmt" -> Yield(VisitPrintStmt(stmt.expr, s.env), "PrintStmt", s)
      [] stmt.type = "ExprStmt" -> Yield(VisitExprStmt(stmt.expr, s.env), "ExprStmt", s)
      [] stmt.type = "IfStmt" -> VisitIfStmt(stmt, s)
      [] stmt.type = "Block" -> VisitBlockStmt(stmt.decls, s)
      [] stmt.type = "WhileStmt" -> VisitWhileStmt(stmt, s)

\* The closure Interpreter::interpret maps over the declarations
\* (interpreter.rs:46-52).
InterpretDecl(decl, s) ==
    IF decl.type = "Statement" THEN VisitStmt(decl.stmt, s)
    ELSE Yield(VisitVarDecl(decl.expr, s.env), "VarDecl", s)

(***************************************************************************)
(* The programs explored: declarations the parser builds from well-formed  *)
(* source text, over two identifiers and a few literals.                   *)
(***************************************************************************)
Identifiers == {"x", "y"}
Lits == {Literal(Number(0)), Literal(Number(1)), Literal(String("a")),
         Literal(Boolean(TRUE)), Literal(Boolean(FALSE)), Literal(Nil)}
Vars == {Variable(n) : n \in Identifiers}
One == Literal(Number(1))
Two == Literal(Number(2))
DivByZero == Binary(One, "SLASH", Literal(Number(0)))
XPlusOne == Binary(Variable("x"), "PLUS", One)

EqualityOps == {"EQUAL_EQUAL", "BANG_EQUAL"}
ArithOps == {"PLUS", "MINUS", "STAR", "SLASH", "LESS", "LESS_EQUAL", "GREATER",
             "GREATER_EQUAL"}
LogicalOps == {"OR", "AND"}

EqualityExprs == {Binary(l, op, r) : l \in Lits, op \in EqualityOps, r \in Lits}
ArithExprs ==
    {Binary(p[1], op, p[2]) :
        op \in ArithOps,
        p \in {<<One, Literal(Number(0))>>, <<One, Two>>,
               <<Literal(String("a")), Literal(String("a"))>>,
               <<One, Literal(String("a"))>>}}
UnaryExprs == {Unary("BANG", Literal(Boolean(TRUE))), Unary("BANG", Literal(Nil)),
               Unary("BANG", Variable("x")), Unary("MINUS", One),
               Unary("MINUS", Literal(String("a")))}
\* a or b, a and b: a of every truthiness (or undefined), b with an effect,
\* with an error, or with neither.
LogicalExprs ==
    {Logical(a, op, b) :
        a \in {Literal(Boolean(TRUE)), Literal(Boolean(FALSE)), Literal(Nil),
               Literal(Number(0)), Variable("x")},
        op \in LogicalOps,
        b \in {Grouping(Assign("y", XPlusOne)), Grouping(DivByZero),
               Literal(String("a")), Variable("y")}}
AssignExprs ==
    {Assign(n, v) : n \in Identifiers,
                    v \in {One, Literal(String("a")), XPlusOne, Variable("y"), DivByZero}}
\* 1 + 2 * 3
OnePlusTwoTimesThree == Binary(One, "PLUS", Binary(Two, "STAR", Literal(Number(3))))
OtherExprs == {OnePlusTwoTimesThree, Binary(Literal(Number(10)), "SLASH", Literal(Number(0))),
               Grouping(One), Grouping(Assign("x", Two))}

PrintedExprs == Lits \cup Vars \cup EqualityExprs \cup ArithExprs \cup UnaryExprs
                  \cup LogicalExprs \cup AssignExprs \cup OtherExprs
StatementExprs == AssignExprs \cup OtherExprs
                    \cup {e \in LogicalExprs : e.left \in {Literal(Boolean(TRUE)), Literal(Nil), Variable("x")}}
                    \cup {One, Variable("x"), Unary("MINUS", One), DivByZero}

Prints == {PrintStmt(e) : e \in PrintedExprs}
ExprStmts == {ExprStmt(e) : e \in StatementExprs}

VarDecls ==
    {VarDeclNoInit(Variable(n)) : n \in Identifiers}
      \cup {VarDeclInit(Variable(n), v) :
               n \in Identifiers,
               v \in {Literal(Number(0)), One, Two, Literal(String("a")),
                      Literal(Boolean(TRUE)), Variable("y"), DivByZero}}

\* The statements a block, a branch or a loop body is made of.
Inner == {PrintStmt(Variable("x")), PrintStmt(One), PrintStmt(DivByZero),
          ExprStmt(Assign("x", XPlusOne)), ExprStmt(Assign("x", Two)),
          ExprStmt(Assign("y", Literal(Boolean(FALSE))))}
InnerDecls == {DeclStatement(st) : st \in Inner}
                \cup {VarDeclInit(Variable("x"), Two), VarDeclNoInit(Variable("y"))}
Blocks == {Block(<<d>>) : d \in InnerDecls}
            \cup {Block(<<d1, d2>>) :
                     d1 \in {VarDeclInit(Variable("x"), Two),
                             DeclStatement(PrintStmt(Variable("x"))),
                             DeclStatement(PrintStmt(DivByZero))},
                     d2 \in {DeclStatement(PrintStmt(Variable("x"))),
                             DeclStatement(ExprStmt(Assign("x", XPlusOne))),
                             DeclStatement(PrintStmt(DivByZero))}}
            \cup {Block(<<>>)}
Conditions == {Literal(Boolean(TRUE)), Literal(Boolean(FALSE)), Literal(Nil),
               Literal(Number(0)), Variable("x"), Variable("y"), DivByZero,
               Binary(Variable("x"), "LESS", Two), Unary("BANG", Variable("y"))}
Ifs == {IfStmt(c, t, e) :
           c \in Conditions,
           t \in {PrintStmt(One), ExprStmt(Assign("x", Two))},
           e \in {<<>>, <<PrintStmt(Two)>>, <<ExprStmt(Assign("y", One))>>}}
Whiles == {WhileStmt(c, b) :
              c \in Conditions,
              b \in Inner \cup {Block(<<DeclStatement(PrintStmt(Variable("x"))),
                                        DeclStatement(ExprStmt(Assign("x", XPlusOne)))>>)}}

Statements == Prints \cup ExprStmts \cup Blocks \cup Ifs \cup Whiles
Decls == VarDecls \cup {DeclStatement(st) : st \in Statements}

(***************************************************************************)
(* The run of one command: Lox::run (main.rs:45-102).                      *)
(***************************************************************************)
\* Scanner::new (scanner.rs:23-32).  start and current count bytes from 0 as
\* in the code; reports are the calls of self.lox.report, in order.
ScannerNew(source) ==
    [source |-> source, tokens |-> <<>>, start |-> 0, current |-> 0, line |-> 1,
     reports |-> <<>>]

\* Parser::new (parser.rs:209-215); reports are the calls of self.lox.error,
\* exited says whether the process has ended inside the parser, and stmts is
\* the vec Parser::parse is filling (parser.rs:255).  panicked says that the
\* process ended by the subtraction of Parser::previous at cursor 0
\* (parser.rs:243) rather than by the exit of Parser::primary; stalled
\* records that some call of Parser::declaration has returned with the cursor
\* where the call found it.
ParserNew(tokens) ==
    [tokens |-> tokens, current |-> 0, reports |-> <<>>, exited |-> FALSE, stmts |-> <<>>,
     panicked |-> FALSE, stalled |-> FALSE]

VARIABLES
    scanner,      \* the Scanner of the run
    parser,       \* the Parser of the run
    command,      \* the command line's command
    empty,        \* file_contents.is_empty()
    pc,           \* where Lox::run (and, inside it, interpret) stands
    has_error,    \* Lox.has_error
    nDecls,       \* the number of declarations Parser::parse returned
    k,            \* the declarations Interpreter::interpret has taken so far
    environment,  \* Interpreter.environment
    results,      \* the stamps of the Exprs interpret has collected
    clock,        \* the number of Exprs yielded so far
    stdout,       \* the lines written to standard output: a yielded Expr by the
                  \* kind of its statement and its stamp, another line by its kind
    exit_status,  \* the process's exit status once pc = "exited"
    error,        \* the RuntimeError's message once interpret has failed
    ended,        \* how the process ended: "return" (run returned), "flag" (exit
                  \* on has_error), "primary", "runtime" or "panic"; "" before
    last,         \* the declaration interpret took last, the Environment before it
                  \* and its result, until collect has moved the result on
    declared,     \* the identifiers a var declaration has bound so far: any of
                  \* them, and those of the top-level declarations
    writes        \* each identifier's last value given to Environment::set

vars == <<command, empty, pc, has_error, nDecls, k, environment, results, clock, stdout,
          exit_status, error, ended, last, declared, writes, scanner, parser>>

Commands == {"tokenize", "parse", "evaluate", "other"}

\* std::process::exit(65) (main.rs:59, 69, 97; parser.rs:562)
ExitSyntax == 65
\* std::process::exit(70) (main.rs:93)
ExitRuntime == 70
\* The status of a process ended by a panic (unreachable!(), unwrap()).
ExitPanic == 101
\* main returns.
ExitOk == 0

Line(kind, seq) == [kind |-> kind, seq |-> seq]
\* The lines println! writes for stamped Exprs (main.rs:87-89,
\* interpreter.rs:276): "print" for the Expr of a print statement, "value" for
\* any other yielded Expr.
Lines(stamped) ==
    [i \in 1..Len(stamped) |->
        Line(IF stamped[i].by = "PrintStmt" THEN "print" ELSE "value", stamped[i].seq)]

NoDecl == DeclStatement(Block(<<>>))
NoneDeclared == [any |-> {}, top |-> {}]
NoLast == [taken |-> FALSE, decl |-> NoDecl, env |-> EnvironmentNew, declared |-> NoneDeclared,
           res |-> SOk(<<>>, State(EnvironmentNew, <<>>, 0, <<>>))]

Init ==
    /\ command \in Commands
    /\ empty \in BOOLEAN
    /\ pc = "run"
    /\ has_error = FALSE
    /\ nDecls = 0
    /\ k = 0
    /\ environment = EnvironmentNew
    /\ results = <<>>
    /\ clock = 0
    /\ stdout = <<>>
    /\ exit_status = ExitOk
    /\ error = ""
    /\ ended = ""
    /\ last = NoLast
    /\ declared = NoneDeclared
    /\ writes = EmptyMap
    /\ scanner = ScannerNew(<<>>)
    /\ parser = ParserNew(<<>>)

Exit(how, status) == pc' = "exited" /\ ended' = how /\ exit_status' = status
ExitOnFlag == IF has_error THEN Exit("flag", ExitSyntax) ELSE Exit("return", ExitOk)

\* main.rs:46-49: an empty file prints the EOF line and returns.
RunEmpty ==
    /\ pc = "run" /\ empty
    /\ stdout' = <<Line("eof", 0)>>
    /\ Exit("return", ExitOk)
    /\ UNCHANGED <<command, empty, has_error, nDecls, k, environment, results, clock,
                   error, last, declared, writes, scanner, parser>>

\* main.rs:100: an unknown command is reported and run returns.
RunUnknown ==
    /\ pc = "run" /\ ~empty /\ command = "other"
    /\ Exit("return", ExitOk)
    /\ UNCHANGED <<command, empty, has_error, nDecls, k, environment, results, clock,
                   stdout, error, last, declared, writes, scanner, parser>>

\* Scanner::scan_tokens (main.rs:52-53, 63-64, 76-77): every error it meets
\* goes through Lox::report (main.rs:27-30), which sets has_error.
Scan ==
    /\ pc = "run" /\ ~empty /\ command \in {"tokenize", "parse", "evaluate"}
    /\ \E reported \in BOOLEAN : has_error' = (has_error \/ reported)
    /\ pc' = "scanned"
    /\ UNCHANGED <<command, empty, nDecls, k, environment, results, clock, stdout,
                   exit_status, error, last, declared, writes, ended, scanner, parser>>

\* main.rs:55-60: the tokens are printed, then the flag decides the status.
TokenizeFinish ==
    /\ pc = "scanned" /\ command = "tokenize"
    /\ stdout' = Append(stdout, Line("tokens", 0))
    /\ ExitOnFlag
    /\ UNCHANGED <<command, empty, has_error, nDecls, k, environment, results, clock,
                   error, last, declared, writes, scanner, parser>>

\* Parser::parse (main.rs:66-67, 79-80): Parser::primary ends the process with
\* 65 on a token no primary starts with (parser.rs:561-562), without setting
\* has_error; otherwise parse returns its declarations, and each error it
\* reported (Parser::consume, Parser::assignment) has set has_error.
Parse ==
    /\ pc = "scanned" /\ command \in {"parse", "evaluate"}
    /\ \/ /\ Exit("primary", ExitSyntax)
          /\ UNCHANGED <<has_error, nDecls>>
       \/ /\ \E reported \in BOOLEAN : has_error' = (has_error \/ reported)
          /\ nDecls' \in 0..MaxDecls
          /\ pc' = "parsed"
          /\ UNCHANGED <<exit_status, ended>>
    /\ UNCHANGED <<command, empty, k, environment, results, clock, stdout, error, last,
                   declared, writes, scanner, parser>>

\* main.rs:68-73: the flag is checked before the declarations are printed.
ParseFinish ==
    /\ pc = "parsed" /\ command = "parse"
    /\ ExitOnFlag
    /\ stdout' = IF has_error THEN stdout
                 ELSE stdout \o [i \in 1..nDecls |-> Line("ast", i)]
    /\ UNCHANGED <<command, empty, has_error, nDecls, k, environment, results, clock,
                   error, last, declared, writes, scanner, parser>>

\* main.rs:81-84: evaluate prints the declarations, whatever the flag, and
\* builds the Interpreter.
EvaluateBegin ==
    /\ pc = "parsed" /\ command = "evaluate"
    /\ stdout' = stdout \o [i \in 1..nDecls |-> Line("ast", i)]
    /\ environment' = EnvironmentNew
    /\ pc' = "interpret"
    /\ UNCHANGED <<command, empty, has_error, nDecls, k, results, clock, exit_status,
                   error, last, declared, writes, ended, scanner, parser>>

\* The identifiers visit_var_decl bound, and every identifier's last value
\* given to Environment::set, read off a trace.
RECURSIVE DeclaredIn(_)
DeclaredIn(trace) ==
    IF trace = <<>> THEN {}
    ELSE (IF Head(trace).op = "set" /\ Head(trace).decl THEN {Head(trace).identifier} ELSE {})
           \cup DeclaredIn(Tail(trace))

RECURSIVE WritesAfter(_, _)
WritesAfter(map, trace) ==
    IF trace = <<>> THEN map
    ELSE WritesAfter(IF Head(trace).op = "set"
                     THEN (Head(trace).identifier :> Head(trace).object) @@ map
                     ELSE map,
                     Tail(trace))

\* The closure of Interpreter::interpret on its next declaration
\* (interpreter.rs:46-52): the declaration is evaluated from the present
\* Environment; a panic ends the process there.
Took(decl, r) ==
    /\ r.tag # "Fuel"
    /\ k' = k + 1
    /\ environment' = r.s.env
    /\ clock' = r.s.clock
    /\ stdout' = stdout \o Lines(r.s.out)
    /\ last' = [taken |-> TRUE, decl |-> decl, env |-> environment,
                declared |-> declared, res |-> r]
    /\ declared' = [any |-> declared.any \cup DeclaredIn(r.s.trace),
                    top |-> IF decl.type = "VarDecl"
                            THEN declared.top \cup DeclaredIn(r.s.trace)
                            ELSE declared.top]
    /\ writes' = WritesAfter(writes, r.s.trace)
    /\ IF r.tag = "Panic"
       THEN Exit("panic", ExitPanic)
       ELSE pc' = "collect" /\ UNCHANGED <<exit_status, ended>>
    /\ UNCHANGED <<command, empty, has_error, nDecls, results, error, scanner, parser>>

InterpretStep ==
    /\ pc = "interpret" /\ k < nDecls
    /\ \E decl \in Decls :
          Took(decl, InterpretDecl(decl, State(environment, <<>>, clock, <<>>)))

\* A collect that drops an Err and lets the iterator go on.
CollectedSkippingErr(r) ==
    /\ results' = results \o Lines(r.exprs)
    /\ last' = NoLast
    /\ pc' = "interpret"
    /\ UNCHANGED error

\* collect::<Result<Vec<Vec<Expr>>, RuntimeError>>() (interpreter.rs:53) on
\* the closure's result: the Exprs of an Ok are kept and the iterator goes
\* on; the first Err is what interpret returns, and no later declaration is
\* taken.
Collected(r) ==
    IF r.tag = "Ok"
    THEN /\ results' = results \o Lines(r.exprs)
         /\ last' = NoLast
         /\ pc' = "interpret"
         /\ UNCHANGED error
    ELSE /\ pc' = "failed"
         /\ error' = r.msg
         /\ UNCHANGED <<results, last>>

Collect ==
    /\ pc = "collect"
    /\ Collected(last.res)
    /\ UNCHANGED <<command, empty, has_error, nDecls, k, environment, clock, stdout,
                   exit_status, declared, writes, ended, scanner, parser>>

\* main.rs:86-90, 96-98: interpret returned Ok; the collected Exprs are
\* printed, then the flag decides the status.
EvaluateOk ==
    /\ pc = "interpret" /\ k = nDecls
    /\ stdout' = stdout \o results
    /\ ExitOnFlag
    /\ UNCHANGED <<command, empty, has_error, nDecls, k, environment, results, clock,
                   error, last, declared, writes, scanner, parser>>

\* main.rs:91-94: interpret returned Err; the message is printed and the
\* process exits with 70.
EvaluateErr ==
    /\ pc = "failed"
    /\ stdout' = Append(stdout, Line("error", 0))
    /\ Exit("runtime", ExitRuntime)
    /\ UNCHANGED <<command, empty, has_error, nDecls, k, environment, results, clock,
                   error, last, declared, writes, scanner, parser>>

Next ==
    \/ RunEmpty
    \/ RunUnknown
    \/ Scan
    \/ TokenizeFinish
    \/ Parse
    \/ ParseFinish
    \/ EvaluateBegin
    \/ InterpretStep
    \/ Collect
    \/ EvaluateOk
    \/ EvaluateErr

Spec == Init /\ [][Next]_vars

(***************************************************************************)
(* Properties.  Most speak of the declaration interpret took last (last),  *)
(* in the states where its result is still at hand.                        *)
(***************************************************************************)
\* The statement of the declaration taken last, when it is a statement.
\* The claims about evaluation are stated for sources that scan and parse
\* without a reported error (~has_error), about the declaration taken last.
LastIsStatement == last.taken /\ last.decl.type = "Statement"
LastStmt == last.decl.stmt
\* The one Expr the last declaration yielded.
LastYielded == last.res.exprs[1].expr

\* C1: assignment to an identifier that no var declaration has bound fails
\* with "Undefined variable x." and leaves the identifier without a binding.
\* The code binds it instead: Environment::set inserts unconditionally.
C1_AssignUndeclaredFails ==
    (/\ ~has_error
     /\ LastIsStatement
     /\ LastStmt.type \in {"ExprStmt", "PrintStmt"}
     /\ LastStmt.expr.type = "Assign"
     /\ LastStmt.expr.value.type = "Literal"
     /\ LastStmt.expr.identifier \notin last.declared.any)
    => /\ last.res.tag = "Err"
       /\ last.res.msg = "Undefined variable " \o LastStmt.expr.identifier \o "."
       /\ Lookup(environment, LastStmt.expr.identifier) = <<>>

\* C2: on two literal operands of different runtime types == yields false and
\* != yields true, and neither raises a RuntimeError.  The code raises
\* "Invalid operands for binary operator." for !=.
C2_MixedTypeEquality ==
    (/\ ~has_error
     /\ LastIsStatement
     /\ LastStmt.type = "PrintStmt"
     /\ LastStmt.expr \in EqualityExprs
     /\ LastStmt.expr.left.value.t # LastStmt.expr.right.value.t)
    => /\ last.res.tag = "Ok"
       /\ LastYielded = Literal(Boolean(LastStmt.expr.operator = "BANG_EQUAL"))

\* The last declaration is `print a op b;` or `a op b;` with op one of or, and.
LastIsLogical ==
    /\ LastIsStatement
    /\ LastStmt.type \in {"ExprStmt", "PrintStmt"}
    /\ LastStmt.expr.type = "Logical"

\* The calls a trace lists after its first n.
Drop(trace, n) == SubSeq(trace, n + 1, Len(trace))

\* What the last declaration, a logical expression e = a op b evaluated from
\* last.env, must have done, given the evaluation la of a alone from last.env:
\* its trace is the visit of e itself (print only), then the calls of a, then
\* - nothing more, the value of a yielded and the Environment as a left it,
\*   when a decides (or: a truthy; and: a falsy);
\* - otherwise exactly the calls of one evaluation of b from the Environment
\*   a left, with b's value yielded, or b's RuntimeError raised.
LogicalDoneRight(e, own, la) ==
    LET calls == Drop(last.res.s.trace, own)
    IN  IF la.tag # "Ok"
        THEN last.res.tag = "Err" /\ last.res.msg = la.msg /\ calls = la.trace
        ELSE IF \/ e.operator = "OR" /\ IsTruthy(la.val)
                \/ e.operator = "AND" /\ ~IsTruthy(la.val)
        THEN /\ last.res.tag = "Ok"
             /\ LastYielded = Literal(la.val)
             /\ calls = la.trace
             /\ environment = la.env
        ELSE LET rb == VisitPrintStmt(e.right, la.env)
             IN  /\ calls = la.trace \o rb.trace
                 /\ Len(rb.trace) >= 1
                 /\ rb.trace[1] = Visit(e.right)
                 /\ environment = rb.env
                 /\ last.res.tag = rb.tag
                 /\ last.res.msg = rb.msg
                 /\ rb.tag = "Ok" => LastYielded = rb.val

\* C3: the logical operators short-circuit.  In `a or b` with a truthy, and in
\* `a and b` with a falsy, the result is a's value and b is not evaluated: no
\* call of b's evaluation is made, so no assignment in b takes effect and no
\* error of b is raised.  In every other case b is evaluated exactly once,
\* after a, and its value (or its RuntimeError) is the result.
C3_LogicalShortCircuits ==
    LastIsLogical =>
        LogicalDoneRight(LastStmt.expr,
                         IF LastStmt.type = "PrintStmt" THEN 1 ELSE 0,
                         EnsureLiteral(LastStmt.expr.left, last.env))

\* C3's cases have happened: `true or (y = x + 1)` taken with x bound to a
\* number left y unbound.
C3_Witness ==
    /\ LastIsLogical
    /\ LastStmt.expr.operator = "OR"
    /\ LastStmt.expr.left = Literal(Boolean(TRUE))
    /\ LastStmt.expr.right = Grouping(Assign("y", XPlusOne))
    /\ Lookup(last.env, "x") = <<Number(1)>>
    /\ last.res.tag = "Ok"
    /\ LastYielded = Literal(Boolean(TRUE))
    /\ Lookup(environment, "y") = <<>>

\* C4: for tokenize, parse and evaluate: a run in which the scanner or the
\* parser set has_error ends with status 65; a run in which evaluation raised
\* a RuntimeError ends with 70; a run with neither, and in which
\* Parser::primary did not end the process, ends with 0.  (Runs ended by a
\* panic are left aside here.)  The code's evaluate interprets the
\* declarations before it looks at has_error, and exits with 70 on a
\* RuntimeError although has_error is set.
C4_ExitStatusMapping ==
    (pc = "exited" /\ ended # "panic" /\ command \in {"tokenize", "parse", "evaluate"})
    => /\ has_error => exit_status = 65
       /\ ended = "runtime" => exit_status = 70
       /\ (~has_error /\ ended \notin {"runtime", "primary"}) => exit_status = 0

\* The expression a declaration evaluates first in its statement position: the
\* expression of an expression or print statement, the initializer of a var
\* declaration, the condition of an if or a while.  <<>> when it has none.
PositionExpr(decl) ==
    IF decl.type = "VarDecl"
    THEN IF decl.expr.right.type = "Binary" THEN <<decl.expr.right.right>> ELSE <<>>
    ELSE CASE decl.stmt.type \in {"ExprStmt", "PrintStmt"} -> <<decl.stmt.expr>>
           [] decl.stmt.type \in {"IfStmt", "WhileStmt"} -> <<decl.stmt.condition>>
           [] OTHER -> <<>>

\* n / 0 on two Number literals.
IsDivisionByZero(e) ==
    /\ e.type = "Binary" /\ e.operator = "SLASH"
    /\ e.left.type = "Literal" /\ e.left.value.t = "Number"
    /\ e.right = Literal(Number(0))

\* C5: a division by zero in any statement position (expression statement,
\* print, initializer, condition) makes interpret fail with RuntimeError
\* "Division by zero.", and the run exit with 70.  The code panics instead in
\* an expression statement (visit_expr_stmt's unreachable!()) and in the
\* condition of a while (unwrap() on the Err).
C5_DivisionByZeroIsRuntimeError ==
    (/\ ~has_error
     /\ last.taken
     /\ PositionExpr(last.decl) # <<>>
     /\ IsDivisionByZero(PositionExpr(last.decl)[1]))
    => /\ last.res.tag = "Err"
       /\ last.res.msg = "Division by zero."
       /\ last.res.exprs = <<>>
       /\ pc = "exited" => exit_status = 70

\* C6: an expression statement `e;` ends with the value of e yielded or with a
\* RuntimeError, never with a crash, for every form of e.  The code's
\* visit_expr_stmt handles Assign and Logical only; every other form reaches
\* unreachable!().
C6_ExprStmtYieldsValue ==
    (~has_error /\ LastIsStatement /\ LastStmt.type = "ExprStmt")
    => LET v == VisitPrintStmt(LastStmt.expr, last.env)
       IN  /\ last.res.tag = v.tag
           /\ last.res.tag = "Ok" =>
                \/ LastYielded = v.val
                \/ LastYielded.type = "Assign" /\ LastYielded.value = v.val

\* C7: a var declaration inside a block binds the name in the block's own
\* scope: once the block has finished, a name a top-level var declaration had
\* bound before the block holds the value it had before it.  The code's visit_block_stmt creates no
\* Environment, so the declaration overwrites the binding.
C7_BlockDeclarationIsLocal ==
    (/\ ~has_error
     /\ LastIsStatement
     /\ LastStmt.type = "Block"
     /\ LastStmt.decls # <<>>
     /\ LastStmt.decls[1].type = "VarDecl"
     /\ last.res.tag = "Ok")
    => LET a == IF LastStmt.decls[1].expr.right.type = "Variable"
                THEN LastStmt.decls[1].expr.right.identifier
                ELSE LastStmt.decls[1].expr.right.left.identifier
       IN  a \in last.declared.top => Lookup(environment, a) = Lookup(last.env, a)

\* The closure of interpret has returned an Err for the declaration taken last.
Failed == last.taken /\ last.res.tag = "Err"

\* C8: once a top-level declaration has failed with a RuntimeError, interpret
\* takes no further declaration: from then on the Environment, the bindings
\* written, the count of declarations taken and the collected results never
\* change, and the only step left to the run is the way to its exit, which
\* is the exit with status 70.
C8_NothingRunsAfterRuntimeError ==
    [][Failed =>
         /\ Failed'
         /\ environment' = environment
         /\ writes' = writes
         /\ declared' = declared
         /\ k' = k
         /\ results' = results
         /\ clock' = clock
         /\ pc' \in {"failed", "exited"}
         /\ pc' = "exited" => (exit_status' = 70 /\ ended' = "runtime")]_vars

\* C8's case has happened: the run has exited with 70 after a declaration
\* that wrote x and then failed (`{ var x = 2; print 1 / 0; }`), with a
\* declaration after it never taken, and the Environment holds what was
\* written before the failure.
C8_Witness ==
    /\ pc = "exited"
    /\ exit_status = 70
    /\ Failed
    /\ last.res.msg = "Division by zero."
    /\ k < nDecls
    /\ Lookup(last.env, "x") = <<>>
    /\ Lookup(environment, "x") = <<Number(2)>>

\* The stamps of the lines of standard output that print statements wrote.
PrintedSeqs == [i \in 1..Len(SelectSeq(stdout, LAMBDA l : l.kind = "print")) |->
                   SelectSeq(stdout, LAMBDA l : l.kind = "print")[i].seq]

\* C9: the values print statements emit appear on standard output in the
\* order in which the statements were executed, also across a while loop,
\* on every run that ends by returning from main.
\* The code prints what a loop body yields at once (interpreter.rs:276) and
\* what top-level statements yield only after interpret has returned
\* (main.rs:87-89), so a print before a loop comes out after the loop's.
C9_OutputInExecutionOrder ==
    (pc = "exited" /\ ended = "return") =>
        \A i, j \in 1..Len(PrintedSeqs) : i < j => PrintedSeqs[i] < PrintedSeqs[j]

\* C10: the Environment is a map from identifiers to their last written
\* value.  Looking an identifier up gives the value last handed to
\* Environment::set for it, and fails with "Undefined variable {name}." when
\* none was; `var x;` leaves x bound to Nil and `var x = e;` to e's value;
\* and a variable reference evaluates to that lookup.
C10_EnvironmentIsLastWrite ==
    /\ \A n \in Identifiers :
          /\ n \in DOMAIN writes =>
                /\ EnvGet(environment, n).tag = "Ok"
                /\ EnvGet(environment, n).val = writes[n]
          /\ n \notin DOMAIN writes =>
                /\ EnvGet(environment, n).tag = "Err"
                /\ EnvGet(environment, n).msg = "Undefined variable " \o n \o "."
    /\ (last.taken /\ last.decl.type = "VarDecl" /\ last.res.tag = "Ok") =>
          LET target == last.decl.expr.right
          IN  IF target.type = "Variable"
              THEN EnvGet(environment, target.identifier).val = Nil
              ELSE EnvGet(environment, target.left.identifier).val
                     = EnsureLiteral(target.right, last.env).val
    /\ (LastIsStatement /\ LastStmt.type = "PrintStmt" /\ LastStmt.expr.type = "Variable") =>
          LET n == LastStmt.expr.identifier
          IN  IF n \in DOMAIN writes
              THEN last.res.tag = "Ok" /\ LastYielded = Literal(writes[n])
              ELSE /\ last.res.tag = "Err"
                   /\ last.res.msg = "Undefined variable " \o n \o "."

\* C10's case has happened: x, bound to one value, has been written again
\* with another, and a lookup gives the second.
C10_Witness ==
    /\ last.taken
    /\ last.res.tag = "Ok"
    /\ Lookup(last.env, "x") = <<Number(1)>>
    /\ "x" \in DOMAIN writes
    /\ writes["x"] = Number(2)
    /\ EnvGet(environment, "x").val = Number(2)

\* The Exprs a statement result yields, without their stamps.
Exprs(r) == [i \in 1..Len(r.exprs) |-> r.exprs[i].expr]

\* What running one branch from the Environment env gives, compared with what
\* the last declaration gave.
LastRanOnly(branch, env) ==
    LET b == VisitStmt(branch, State(env, <<>>, 0, <<>>))
    IN  /\ last.res.tag = b.tag
        /\ Exprs(last.res) = Exprs(b)
        /\ environment = b.s.env

\* C11: an if statement whose condition evaluates to a value runs the
\* then-branch alone when the value is truthy, the else-branch alone when it
\* is falsy and there is one, and otherwise is a no-op: nothing is executed
\* and no result value is yielded.  The code yields the literal nil in the
\* last case (interpreter.rs:297), which Lox::run prints as a line "nil".
C11_IfRunsExactlyOneBranch ==
    (/\ ~has_error
     /\ LastIsStatement
     /\ LastStmt.type = "IfStmt"
     /\ VisitPrintStmt(LastStmt.condition, last.env).tag = "Ok")
    => LET c == VisitPrintStmt(LastStmt.condition, last.env)
       IN  IF IsTruthy(c.val.value) THEN LastRanOnly(LastStmt.then_branch, c.env)
           ELSE IF LastStmt.else_branch # <<>>
                THEN LastRanOnly(LastStmt.else_branch[1], c.env)
           ELSE /\ last.res.tag = "Ok"
                /\ last.res.exprs = <<>>
                /\ environment = c.env

\* Whether an assignment occurs in an expression.
RECURSIVE HasAssign(_)
HasAssign(e) ==
    CASE e.type = "Assign" -> TRUE
      [] e.type \in {"Literal", "Variable"} -> FALSE
      [] e.type = "Unary" -> HasAssign(e.right)
      [] e.type = "Grouping" -> HasAssign(e.expression)
      [] e.type \in {"Binary", "Logical"} -> HasAssign(e.left) \/ HasAssign(e.right)

\* The last declaration is a print statement with no assignment in it.
LastIsPurePrint ==
    /\ LastIsStatement
    /\ LastStmt.type = "PrintStmt"
    /\ ~HasAssign(LastStmt.expr)

\* C12: a print statement whose expression holds no assignment leaves the
\* Environment as it was, whether it prints or fails: no call of
\* Environment::set is made, every identifier keeps its binding or its lack
\* of one, so what comes later is evaluated as if the print had not run.
C12_PrintLeavesEnvironment ==
    LastIsPurePrint =>
        /\ environment = last.env
        /\ \A i \in 1..Len(last.res.s.trace) : last.res.s.trace[i].op # "set"
        /\ \A n \in Identifiers : Lookup(environment, n) = Lookup(last.env, n)
        /\ declared = last.declared

\* C12's case has happened: with x bound and y not, `print !x;` has printed
\* and `print y;` would fail, and the bindings are what they were.
C12_Witness ==
    /\ LastIsPurePrint
    /\ LastStmt.expr = Unary("BANG", Variable("x"))
    /\ last.res.tag = "Ok"
    /\ Lookup(last.env, "x") = <<Number(1)>>
    /\ Lookup(environment, "x") = <<Number(1)>>
    /\ Lookup(environment, "y") = <<>>

(***************************************************************************)
(* The scanner (scanner.rs, token.rs).  A byte is a one-character string,  *)
(* the source a sequence of bytes, a lexeme and a literal sequences of     *)
(* bytes too.                                                              *)
(***************************************************************************)
\* Bytes of one source text (sources are drawn from these in ScanInit).
MaxSrc == 3

\* u8::is_ascii_digit, and the first bytes of an identifier (scanner.rs:208).
AsciiDigits == {"0", "1", "2", "3", "4", "5", "6", "7", "8", "9"}
AsciiAlpha ==
    {"a", "b", "c", "d", "e", "f", "g", "h", "i", "j", "k", "l", "m", "n", "o", "p", "q",
     "r", "s", "t", "u", "v", "w", "x", "y", "z",
     "A", "B", "C", "D", "E", "F", "G", "H", "I", "J", "K", "L", "M", "N", "O", "P", "Q",
     "R", "S", "T", "U", "V", "W", "X", "Y", "Z"}
IsAsciiDigit(ch) == ch \in AsciiDigits
IsAsciiAlphanumeric(ch) == ch \in AsciiAlpha \cup AsciiDigits

\* b'\0', what peek and peek_next give at the end of the source.
NUL == "NUL"
\* The literal of a token that has none (scanner.rs:57).
Null == <<"n", "u", "l", "l">>

\* KEYWORDS (token.rs:56-77)
Keywords ==
    (<<"a", "n", "d">> :> "AND") @@ (<<"c", "l", "a", "s", "s">> :> "CLASS")
      @@ (<<"e", "l", "s", "e">> :> "ELSE") @@ (<<"f", "a", "l", "s", "e">> :> "FALSE")
      @@ (<<"f", "o", "r">> :> "FOR") @@ (<<"f", "u", "n">> :> "FUN")
      @@ (<<"i", "f">> :> "IF") @@ (<<"n", "i", "l">> :> "NIL") @@ (<<"o", "r">> :> "OR")
      @@ (<<"p", "r", "i", "n", "t">> :> "PRINT")
      @@ (<<"r", "e", "t", "u", "r", "n">> :> "RETURN")
      @@ (<<"s", "u", "p", "e", "r">> :> "SUPER") @@ (<<"t", "h", "i", "s">> :> "THIS")
      @@ (<<"t", "r", "u", "e">> :> "TRUE") @@ (<<"v", "a", "r">> :> "VAR")
      @@ (<<"w", "h", "i", "l", "e">> :> "WHILE")

\* try_get_keyword (token.rs:79-84): Some(token_type) as <<token_type>>.
TryGetKeyword(keyword) ==
    IF keyword \in DOMAIN Keywords THEN <<Keywords[keyword]>> ELSE <<>>

\* Token::new (token.rs:95-102)
Token(token_type, lexeme, literal, line) ==
    [token_type |-> token_type, lexeme |-> lexeme, literal |-> literal, line |-> line]

\* Scanner::is_at_end (scanner.rs:34-36)
IsAtEnd(sc) == sc.current >= Len(sc.source)

\* Scanner::advance (scanner.rs:50-54): the scanner after it; the byte it
\* returns is the one at the old current.
Advance(sc) == [sc EXCEPT !.current = @ + 1]

\* &self.source[self.start..self.current] (scanner.rs:61)
Text(sc) == SubSeq(sc.source, sc.start + 1, sc.current)

\* Scanner::add_token_with_literal (scanner.rs:60-64)
AddTokenWithLiteral(sc, token_type, literal) ==
    [sc EXCEPT !.tokens = Append(@, Token(token_type, Text(sc), literal, sc.line))]

\* Scanner::add_token (scanner.rs:56-58)
AddToken(sc, token_type) == AddTokenWithLiteral(sc, token_type, Null)

\* A next_match that takes the next byte whatever it is.
NextMatchAny(sc, expected) ==
    IF IsAtEnd(sc) THEN [matched |-> FALSE, scanner |-> sc]
    ELSE [matched |-> TRUE, scanner |-> [sc EXCEPT !.current = @ + 1]]

\* Scanner::next_match (scanner.rs:66-76): whether it matched, and the
\* scanner after it.
NextMatch(sc, expected) ==
    IF IsAtEnd(sc) THEN [matched |-> FALSE, scanner |-> sc]
    ELSE IF sc.source[sc.current + 1] # expected THEN [matched |-> FALSE, scanner |-> sc]
    ELSE [matched |-> TRUE, scanner |-> [sc EXCEPT !.current = @ + 1]]

\* Scanner::peek (scanner.rs:78-83)
Peek(sc) == IF IsAtEnd(sc) THEN NUL ELSE sc.source[sc.current + 1]

\* Scanner::peek_next (scanner.rs:85-90)
PeekNext(sc) == IF sc.current + 1 >= Len(sc.source) THEN NUL ELSE sc.source[sc.current + 2]

\* self.lox.report(self.line, where, message) (main.rs:27-30), which prints
\* "[line {line}] Error: {where}{message}" and sets has_error; at is the
\* place of the token being scanned.
Report(sc, where, message) ==
    [sc EXCEPT !.reports = Append(@, [line |-> sc.line, where |-> where,
                                      message |-> message, at |-> sc.start])]

\* The loop of Scanner::add_string (scanner.rs:93-98)
RECURSIVE StringBody(_)
StringBody(sc) ==
    IF Peek(sc) # "\"" /\ ~IsAtEnd(sc)
    THEN StringBody(Advance(IF Peek(sc) = "\n" THEN [sc EXCEPT !.line = @ + 1] ELSE sc))
    ELSE sc

\* An add_string that makes a STRING token of an unterminated string too.
AddStringLenient(sc) ==
    LET body == StringBody(sc)
        closed == IF IsAtEnd(body) THEN body ELSE Advance(body)
    IN  AddTokenWithLiteral(closed, "STRING",
                            SubSeq(closed.source, closed.start + 2, closed.current - 1))

\* Scanner::add_string (scanner.rs:92-114)
AddString(sc) ==
    LET body == StringBody(sc)
    IN  IF IsAtEnd(body) THEN Report(body, "Unterminated string.", "")
        ELSE LET closed == Advance(body)
             IN  AddTokenWithLiteral(closed, "STRING",
                     SubSeq(closed.source, closed.start + 2, closed.current - 1))

\* The loops of Scanner::add_number (scanner.rs:117-119, 124-126)
RECURSIVE SkipDigits(_)
SkipDigits(sc) == IF IsAsciiDigit(Peek(sc)) THEN SkipDigits(Advance(sc)) ELSE sc

RECURSIVE StripLeadingZeros(_)
StripLeadingZeros(digits) ==
    IF Len(digits) > 1 /\ Head(digits) = "0" THEN StripLeadingZeros(Tail(digits)) ELSE digits

RECURSIVE StripTrailingZeros(_)
StripTrailingZeros(digits) ==
    IF digits # <<>> /\ digits[Len(digits)] = "0"
    THEN StripTrailingZeros(SubSeq(digits, 1, Len(digits) - 1))
    ELSE digits

\* str_repr.parse::<f32>() and its formatting (scanner.rs:130-135) for a
\* text of digits with at most one dot between digits, short enough for an
\* f32 to hold every digit: "{:.1}" when the fraction is zero, else "{}".
FormatNumber(text) ==
    LET dots == {i \in 1..Len(text) : text[i] = "."}
        dot == IF dots = {} THEN Len(text) + 1 ELSE CHOOSE i \in dots : TRUE
        int == StripLeadingZeros(SubSeq(text, 1, dot - 1))
        frac == StripTrailingZeros(SubSeq(text, dot + 1, Len(text)))
    IN  IF frac = <<>> THEN int \o <<".", "0">> ELSE int \o <<".">> \o frac

\* Scanner::add_number (scanner.rs:116-137)
AddNumber(sc) ==
    LET whole == SkipDigits(sc)
        all == IF Peek(whole) = "." /\ IsAsciiDigit(PeekNext(whole))
               THEN SkipDigits(Advance(whole))
               ELSE whole
    IN  AddTokenWithLiteral(all, "NUMBER", FormatNumber(Text(all)))

\* The loop of Scanner::add_identifier_or_reserved_words (scanner.rs:140-142)
RECURSIVE SkipAlphanumeric(_)
SkipAlphanumeric(sc) ==
    IF IsAsciiAlphanumeric(Peek(sc)) \/ Peek(sc) = "_"
    THEN SkipAlphanumeric(Advance(sc))
    ELSE sc

\* Scanner::add_identifier_or_reserved_words (scanner.rs:139-149)
AddIdentifierOrReservedWords(sc) ==
    LET word == SkipAlphanumeric(sc)
        keyword == TryGetKeyword(Text(word))
    IN  IF keyword = <<>> THEN AddTokenWithLiteral(word, "IDENTIFIER", Text(word))
        ELSE AddToken(word, keyword[1])

\* The loop over a line comment (scanner.rs:197-199)
RECURSIVE SkipComment(_)
SkipComment(sc) ==
    IF ~IsAtEnd(sc) /\ Peek(sc) # "\n" THEN SkipComment(Advance(sc)) ELSE sc

\* A token table with two kinds exchanged.
SingleCharTokensSwapped ==
    ("(" :> "RIGHT_PAREN") @@ (")" :> "LEFT_PAREN") @@ ("{" :> "LEFT_BRACE")
      @@ ("}" :> "RIGHT_BRACE") @@ ("," :> "COMMA") @@ ("." :> "DOT") @@ ("-" :> "MINUS")
      @@ ("+" :> "PLUS") @@ (";" :> "SEMICOLON") @@ ("*" :> "STAR")

\* The arms of scan_token for one-byte tokens (scanner.rs:153-162); `/` has
\* an arm of its own.
SingleCharTokens ==
    ("(" :> "LEFT_PAREN") @@ (")" :> "RIGHT_PAREN") @@ ("{" :> "LEFT_BRACE")
      @@ ("}" :> "RIGHT_BRACE") @@ ("," :> "COMMA") @@ ("." :> "DOT") @@ ("-" :> "MINUS")
      @@ ("+" :> "PLUS") @@ (";" :> "SEMICOLON") @@ ("*" :> "STAR")

\* The arms for the bytes that may be followed by `=` (scanner.rs:163-194):
\* the token without and with it.
OneOrTwoCharTokens ==
    ("!" :> <<"BANG", "BANG_EQUAL">>) @@ ("=" :> <<"EQUAL", "EQUAL_EQUAL">>)
      @@ ("<" :> <<"LESS", "LESS_EQUAL">>) @@ (">" :> <<"GREATER", "GREATER_EQUAL">>)

\* An arm for an unexpected byte that gives the scan up: it reports and
\* leaves the rest of the source unread.
UnexpectedStops(sc, ch) ==
    [Report(sc, "Unexpected character: ", ch) EXCEPT !.current = Len(sc.source)]

\* The last arm of scan_token (scanner.rs:209-212)
Unexpected(sc, ch) == Report(sc, "Unexpected character: ", ch)

\* Scanner::scan_token (scanner.rs:151-214) on the scanner whose start
\* scan_tokens has just set (scanner.rs:40).
ScanToken(sc) ==
    LET ch == sc.source[sc.current + 1]
        adv == Advance(sc)
    IN  CASE ch \in DOMAIN SingleCharTokens -> AddToken(adv, SingleCharTokens[ch])
          [] ch \in DOMAIN OneOrTwoCharTokens ->
               LET m == NextMatch(adv, "=")
               IN  AddToken(m.scanner, OneOrTwoCharTokens[ch][IF m.matched THEN 2 ELSE 1])
          [] ch = "/" ->
               LET m == NextMatch(adv, "/")
               IN  IF m.matched THEN SkipComment(m.scanner) ELSE AddToken(adv, "SLASH")
          [] ch \in {" ", "\t", "\r"} -> adv
          [] ch = "\n" -> [adv EXCEPT !.line = @ + 1]
          [] ch = "\"" -> AddString(adv)
          [] IsAsciiDigit(ch) -> AddNumber(adv)
          [] ch \in AsciiAlpha \cup {"_"} -> AddIdentifierOrReservedWords(adv)
          [] OTHER -> Unexpected(adv, ch)

\* The EOF token of one that reads line 1 whatever the line is.
EofTokenFirstLine(sc) == Token("EOF", <<>>, Null, 1)

\* Token::new(EOF, "".as_bytes(), "null".into(), self.line) (scanner.rs:45)
EofToken(sc) == Token("EOF", <<>>, Null, sc.line)

\* Scanner::scan_tokens (scanner.rs:38-48) from any point of its loop on.
RECURSIVE ScanTokens(_)
ScanTokens(sc) ==
    IF IsAtEnd(sc) THEN [sc EXCEPT !.tokens = Append(@, EofToken(sc))]
    ELSE ScanTokens(ScanToken([sc EXCEPT !.start = sc.current]))

(***************************************************************************)
(* The tokenize command on the texts of at most MaxSrc bytes: Lox::run     *)
(* (main.rs:46-61) with scan_tokens followed one scan_token at a time.     *)
(***************************************************************************)
Bytes == {"(", ")", "{", "}", ",", ".", "-", "+", ";", "*", "/", "!", "=", "<", ">",
          "\"", "\n", " ", "@", "0", "1", "a"}
Sources == UNION {[1..n -> Bytes] : n \in 0..MaxSrc}

ScanInit ==
    /\ scanner \in {ScannerNew(source) : source \in Sources}
    /\ empty = (scanner.source = <<>>)
    /\ command = "tokenize"
    /\ pc = "run"
    /\ has_error = FALSE
    /\ nDecls = 0
    /\ k = 0
    /\ environment = EnvironmentNew
    /\ results = <<>>
    /\ clock = 0
    /\ stdout = <<>>
    /\ exit_status = ExitOk
    /\ error = ""
    /\ ended = ""
    /\ last = NoLast
    /\ declared = NoneDeclared
    /\ writes = EmptyMap
    /\ parser = ParserNew(<<>>)

\* One turn of the loop of scan_tokens (scanner.rs:39-42); a report sets
\* Lox.has_error (main.rs:28).
ScanTokensStep ==
    /\ pc = "run" /\ ~empty /\ command \in {"tokenize", "parse", "evaluate"}
    /\ ~IsAtEnd(scanner)
    /\ scanner' = ScanToken([scanner EXCEPT !.start = scanner.current])
    /\ has_error' = (has_error \/ Len(scanner'.reports) > Len(scanner.reports))
    /\ UNCHANGED <<command, empty, pc, nDecls, k, environment, results, clock, stdout,
                   exit_status, error, ended, last, declared, writes, parser>>

\* The end of scan_tokens (scanner.rs:44-47): the EOF token is pushed.
ScanTokensEnd ==
    /\ pc = "run" /\ ~empty /\ command \in {"tokenize", "parse", "evaluate"}
    /\ IsAtEnd(scanner)
    /\ scanner' = [scanner EXCEPT !.tokens = Append(@, EofToken(scanner))]
    /\ pc' = "scanned"
    /\ UNCHANGED <<command, empty, has_error, nDecls, k, environment, results, clock,
                   stdout, exit_status, error, ended, last, declared, writes, parser>>

ScanNext ==
    \/ RunEmpty
    \/ ScanTokensStep
    \/ ScanTokensEnd
    \/ TokenizeFinish

ScanSpec == ScanInit /\ [][ScanNext]_vars

\* The scan of the source is over: scan_tokens has returned.
Scanned == pc \in {"scanned", "exited"} /\ ~empty
\* The number of newline bytes in a text.
Newlines(text) == Cardinality({i \in 1..Len(text) : text[i] = "\n"})
\* A sequence without its last element.
Front(seq) == SubSeq(seq, 1, Len(seq) - 1)

\* C13: whatever the source (unexpected bytes and an unterminated string
\* included), the tokens scan_tokens returns end with an EOF token with an
\* empty lexeme and the number of the last line (1 + the newlines of the
\* source), and no other token, then or while scanning, is an EOF.
C13_TokensEndWithEof ==
    /\ pc = "run" =>
          \A i \in 1..Len(scanner.tokens) : scanner.tokens[i].token_type # "EOF"
    /\ Scanned =>
          /\ scanner.tokens # <<>>
          /\ scanner.tokens[Len(scanner.tokens)]
               = Token("EOF", <<>>, Null, 1 + Newlines(scanner.source))
          /\ \A i \in 1..(Len(scanner.tokens) - 1) : scanner.tokens[i].token_type # "EOF"

\* C13's case has happened: `@"` and a newline, an unexpected byte and an
\* unterminated string over two lines, have been scanned to the one token
\* EOF of line 2.
C13_Witness ==
    /\ Scanned
    /\ scanner.source = <<"@", "\"", "\n">>
    /\ has_error
    /\ scanner.tokens = <<Token("EOF", <<>>, Null, 2)>>

\* The places (from 0) of the bytes reported as unexpected.
UnexpectedAt ==
    {scanner.reports[i].at : i \in {j \in 1..Len(scanner.reports) :
                                       scanner.reports[j].where = "Unexpected character: "}}

\* C14: a byte that reaches the last arm of scan_token is reported and sets
\* the error flag, gives no token, and the scan goes on at the next byte: the
\* tokens of the source are those of the source with a space in the place of
\* every byte so reported.
C14_UnexpectedByteIsSkipped ==
    /\ UnexpectedAt # {} => has_error
    /\ \A at \in UnexpectedAt :
          /\ scanner.source[at + 1] \notin
               DOMAIN SingleCharTokens \cup DOMAIN OneOrTwoCharTokens \cup AsciiAlpha
                 \cup AsciiDigits \cup {"/", " ", "\t", "\r", "\n", "\"", "_"}
          /\ \A i \in 1..Len(scanner.tokens) :
                scanner.tokens[i].token_type # "STRING"
                  => scanner.source[at + 1] \notin
                       {scanner.tokens[i].lexeme[j] : j \in 1..Len(scanner.tokens[i].lexeme)}
    /\ Scanned =>
          scanner.tokens
            = ScanTokens(ScannerNew([i \in 1..Len(scanner.source) |->
                                        IF i - 1 \in UnexpectedAt THEN " "
                                        ELSE scanner.source[i]])).tokens

\* C14's case has happened: in `=@=` the byte between the two `=` was
\* reported and the scan went on to the second one.
C14_Witness ==
    /\ Scanned
    /\ scanner.source = <<"=", "@", "=">>
    /\ UnexpectedAt = {1}
    /\ has_error
    /\ scanner.tokens = <<Token("EQUAL", <<"=">>, Null, 1), Token("EQUAL", <<"=">>, Null, 1),
                          Token("EOF", <<>>, Null, 1)>>

\* The reports of an unterminated string.
Unterminated ==
    {i \in 1..Len(scanner.reports) : scanner.reports[i].where = "Unterminated string."}

\* C15: a string opened and not closed before the end of the source gives no
\* STRING token (every STRING token's lexeme is its literal between two
\* quotes); it is reported as "Unterminated string." on the last line, each
\* newline in it counted, the error flag is set and tokenize exits with 65;
\* the tokens are those of the text before the opening quote, and end with
\* EOF.  In a text without a comment every quote left open is so reported.
C15_UnterminatedString ==
    /\ \A i \in 1..Len(scanner.tokens) :
          scanner.tokens[i].token_type = "STRING"
            => scanner.tokens[i].lexeme = <<"\"">> \o scanner.tokens[i].literal \o <<"\"">>
    /\ \A i \in Unterminated :
          /\ has_error
          /\ IsAtEnd(scanner)
          /\ scanner.source[scanner.reports[i].at + 1] = "\""
          /\ scanner.reports[i].message = ""
          /\ scanner.reports[i].line = 1 + Newlines(scanner.source)
          /\ Scanned =>
                /\ Front(scanner.tokens)
                     = Front(ScanTokens(ScannerNew(SubSeq(scanner.source, 1,
                                                          scanner.reports[i].at))).tokens)
                /\ scanner.tokens[Len(scanner.tokens)].token_type = "EOF"
          /\ pc = "exited" => exit_status = 65
    /\ (/\ Scanned
        /\ Unterminated = {}
        /\ \A i \in 1..Len(scanner.source) : scanner.source[i] # "/")
       => Cardinality({i \in 1..Len(scanner.source) : scanner.source[i] = "\""}) % 2 = 0

\* C15's case has happened: `1"a` and a newline has been tokenized to the
\* NUMBER before the quote and the EOF of line 2, and the run has exited
\* with 65.
C15_Witness ==
    /\ pc = "exited"
    /\ scanner.source = <<"1", "\"", "\n">>
    /\ Unterminated # {}
    /\ exit_status = 65
    /\ scanner.tokens = <<Token("NUMBER", <<"1">>, <<"1", ".", "0">>, 1),
                          Token("EOF", <<>>, Null, 2)>>


\* The kind of token the specification names for each punctuation character.
PunctKind ==
    ("(" :> "LEFT_PAREN") @@ (")" :> "RIGHT_PAREN") @@ ("{" :> "LEFT_BRACE") @@
    ("}" :> "RIGHT_BRACE") @@ ("," :> "COMMA") @@ ("." :> "DOT") @@ ("-" :> "MINUS") @@
    ("+" :> "PLUS") @@ (";" :> "SEMICOLON") @@ ("*" :> "STAR") @@ ("/" :> "SLASH")

PunctOnly(text) == \A i \in 1..Len(text) : text[i] \in DOMAIN PunctKind

\* One token per character, of the matching kind and in input order, then one EOF.
OneTokenPerCharacter ==
    /\ Len(scanner.tokens) = Len(scanner.source) + 1
    /\ \A i \in 1..Len(scanner.source) :
          scanner.tokens[i] =
              Token(PunctKind[scanner.source[i]], <<scanner.source[i]>>, Null, 1)
    /\ scanner.tokens[Len(scanner.source) + 1] = Token("EOF", <<>>, Null, 1)
    /\ scanner.reports = <<>>

HasTwoSlashes(text) ==
    \E i \in 1..(Len(text) - 1) : text[i] = "/" /\ text[i + 1] = "/"

\* C16 as stated: every input made only of the punctuation characters, in any
\* order, is scanned to one token per character of the matching kind, in input
\* order, followed by one EOF token.
C16_OneTokenPerPunctuation ==
    (Scanned /\ PunctOnly(scanner.source)) => OneTokenPerCharacter

\* C16 amended: every input made only of the punctuation characters in which no
\* "/" is immediately followed by another "/" is scanned to one token per
\* character of the matching kind, in input order, followed by one EOF token;
\* and an input with two adjacent "/" is scanned to fewer tokens than characters.
C16_OneTokenPerPunctuationOutsideComments ==
    (Scanned /\ PunctOnly(scanner.source)) =>
        IF HasTwoSlashes(scanner.source)
        THEN Len(scanner.tokens) < Len(scanner.source) + 1
        ELSE OneTokenPerCharacter

C16_Witness ==
    /\ Scanned
    /\ scanner.source = <<"/", "(", "/">>
    /\ Len(scanner.tokens) = 4
    /\ scanner.tokens[1].token_type = "SLASH"
    /\ scanner.tokens[3].token_type = "SLASH"


\* The one-character and two-character kinds the specification names for the
\* characters that may be followed by "=".
OneCharKind ==
    ("!" :> "BANG") @@ ("=" :> "EQUAL") @@ ("<" :> "LESS") @@ (">" :> "GREATER")
TwoCharKind ==
    ("!" :> "BANG_EQUAL") @@ ("=" :> "EQUAL_EQUAL") @@ ("<" :> "LESS_EQUAL") @@
    (">" :> "GREATER_EQUAL")

\* The scanner is about to scan a token that starts with one of ! = < >.
AtOperatorStart ==
    /\ pc = "run"
    /\ ~empty
    /\ command = "tokenize"
    /\ ~IsAtEnd(scanner)
    /\ scanner.source[scanner.current + 1] \in DOMAIN OneCharKind

\* C19: when a token starts with one of ! = < >, the scanner consumes the
\* following byte if and only if it is "=", and then appends the two-character
\* token; otherwise it appends the one-character token and leaves the following
\* byte to start the next token.
C19_SecondByteOnlyOnExactMatch ==
    [][AtOperatorStart =>
         LET ch == scanner.source[scanner.current + 1]
             followed == /\ scanner.current + 2 <= Len(scanner.source)
                         /\ scanner.source[scanner.current + 2] = "="
         IN  /\ scanner'.reports = scanner.reports
             /\ IF followed
                THEN /\ scanner'.current = scanner.current + 2
                     /\ scanner'.tokens =
                            Append(scanner.tokens,
                                   Token(TwoCharKind[ch], <<ch, "=">>, Null, scanner.line))
                ELSE /\ scanner'.current = scanner.current + 1
                     /\ scanner'.tokens =
                            Append(scanner.tokens,
                                   Token(OneCharKind[ch], <<ch>>, Null, scanner.line))]_vars

C19_Witness ==
    /\ Scanned
    /\ scanner.source = <<"=", "=", "=">>
    /\ scanner.tokens = <<Token("EQUAL_EQUAL", <<"=", "=">>, Null, 1),
                          Token("EQUAL", <<"=">>, Null, 1),
                          Token("EOF", <<>>, Null, 1)>>


\* The declaration taken last is a while statement whose condition raises a
\* RuntimeError when first evaluated.
LastWhileConditionFails ==
    /\ last.taken
    /\ ~has_error
    /\ last.decl.type = "Statement"
    /\ last.decl.stmt.type = "WhileStmt"
    /\ VisitPrintStmt(last.decl.stmt.condition, last.env).tag = "Err"

\* C20: a runtime error raised while evaluating the condition of a while loop
\* is returned from interpret as a RuntimeError, and the run exits with
\* status 70.
C20_WhileConditionErrorIsRuntimeError ==
    LastWhileConditionFails =>
        /\ last.res.tag = "Err"
        /\ pc = "exited" => exit_status = ExitRuntime


(***************************************************************************)
(* The parser (parser.rs:203-564) over the tokens of the scanner.  Each    *)
(* parsing function takes the Parser p and gives [p, node]: the Parser as  *)
(* the call left it and the node it returned.  A function that goes on     *)
(* after a call of another parsing function is written as that call handed *)
(* to the operator of what follows it.  Once Parser::primary has ended the *)
(* process (p.exited) nothing more of the parser runs: no token is         *)
(* matched, no error is reported, and every function returns at once.      *)
(***************************************************************************)
Parsed(p, node) == [p |-> p, node |-> node]

\* String::from_utf8_lossy on ASCII bytes, and String::clone of a literal.
RECURSIVE Utf8(_)
Utf8(bytes) == IF bytes = <<>> THEN "" ELSE Head(bytes) \o Utf8(Tail(bytes))

\* Parser::peek (parser.rs:238-240)
ParserPeek(p) == p.tokens[p.current + 1]

\* Parser::previous (parser.rs:242-244)
Previous(p) == p.tokens[p.current]

\* Parser::is_at_end (parser.rs:217-222)
ParserIsAtEnd(p) == ParserPeek(p).token_type = "EOF"

\* Parser::advance leaving the cursor on an IDENTIFIER token.
ParserAdvanceKeepsIdentifier(p) ==
    IF p.exited THEN p
    ELSE IF ~ParserIsAtEnd(p) /\ ParserPeek(p).token_type # "IDENTIFIER"
         THEN [p EXCEPT !.current = @ + 1]
    ELSE IF p.current = 0 THEN [p EXCEPT !.exited = TRUE, !.panicked = TRUE]
    ELSE p

\* Parser::advance (parser.rs:224-229): the cursor moves unless it is on EOF,
\* and then self.previous() is called, which panics at cursor 0.
ParserAdvance(p) ==
    IF p.exited THEN p
    ELSE IF ~ParserIsAtEnd(p) THEN [p EXCEPT !.current = @ + 1]
    ELSE IF p.current = 0 THEN [p EXCEPT !.exited = TRUE, !.panicked = TRUE]
    ELSE p

\* Parser::check (parser.rs:231-236)
Check(p, token_type) ==
    /\ ~p.exited
    /\ ~ParserIsAtEnd(p)
    /\ ParserPeek(p).token_type = token_type

\* Lox::error (main.rs:32-43) called by the parser, with the report it makes.
Error(p, token, message) ==
    IF p.exited THEN p
    ELSE [p EXCEPT !.reports =
             Append(@, [line |-> token.line,
                        where |-> IF token.token_type = "EOF" THEN " at end "
                                  ELSE " at '" \o Utf8(token.lexeme) \o "' ",
                        message |-> message])]

\* Parser::consume (parser.rs:246-252)
Consume(p, token_type, message) ==
    IF Check(p, token_type) THEN ParserAdvance(p)
    ELSE Error(p, ParserPeek(p), message)

\* Parser::match_token (parser.rs:508-516): [matched, p]
MatchToken(p, token_types) ==
    IF \E i \in 1..Len(token_types) : Check(p, token_types[i])
    THEN [matched |-> TRUE, p |-> ParserAdvance(p)]
    ELSE [matched |-> FALSE, p |-> p]

RECURSIVE ParserExpression(_)
RECURSIVE ParserStatement(_)
RECURSIVE ParserDeclaration(_)

\* Parser::primary (parser.rs:518-563).  ParseF32 is literal.parse::<f32>()
\* (parser.rs:527) on the literal of a NUMBER token, digits "." digits: the
\* fraction of the digits without the point over the power of ten of the
\* digits after it.  GroupingOf is the end of the LEFT_PAREN arm
\* (parser.rs:553-557) from the expression parsed.
ParserPrimary(p) ==
    LET DigitValue ==
            ("0" :> 0) @@ ("1" :> 1) @@ ("2" :> 2) @@ ("3" :> 3) @@ ("4" :> 4) @@
            ("5" :> 5) @@ ("6" :> 6) @@ ("7" :> 7) @@ ("8" :> 8) @@ ("9" :> 9)
        RECURSIVE ParseF32From(_, _, _, _)
        ParseF32From(literal, i, n, d) ==
            IF i > Len(literal) THEN NumberQ(Frac(n, d))
            ELSE IF literal[i] = "." THEN ParseF32From(literal, i + 1, n, 1)
            ELSE ParseF32From(literal, i + 1, 10 * n + DigitValue[literal[i]],
                              IF d = 0 THEN 0 ELSE 10 * d)
        ParseF32(literal) ==
            LET q == ParseF32From(literal, 1, 0, 0)
            IN  IF q.v[2] = 0 THEN NumberQ(Frac(q.v[1], 1)) ELSE q
        GroupingOf(e) ==
            IF e.p.exited THEN e
            ELSE Parsed(Consume(e.p, "RIGHT_PAREN", "Error: Unmatched parentheses."),
                        Grouping(e.node))
        tok == ParserPeek(p)
        next == ParserAdvance(p)
    IN  CASE Check(p, "STRING") -> Parsed(next, Literal(String(Utf8(tok.literal))))
          [] Check(p, "NUMBER") -> Parsed(next, Literal(ParseF32(tok.literal)))
          [] Check(p, "TRUE") -> Parsed(next, Literal(Boolean(TRUE)))
          [] Check(p, "FALSE") -> Parsed(next, Literal(Boolean(FALSE)))
          [] Check(p, "NIL") -> Parsed(next, Literal(Nil))
          [] Check(p, "IDENTIFIER") -> Parsed(next, Variable(Utf8(tok.lexeme)))
          [] Check(p, "LEFT_PAREN") -> GroupingOf(ParserExpression(next))
          [] OTHER -> Parsed([p EXCEPT !.exited = TRUE], Literal(Nil))

\* Parser::unary (parser.rs:498-506); UnaryOf is the Unary (parser.rs:500-503)
\* from its operand.
RECURSIVE ParserUnary(_)
ParserUnary(p) ==
    LET UnaryOf(operator, right) ==
            Parsed(right.p, Unary(operator.token_type, right.node))
        m == MatchToken(p, <<"BANG", "MINUS">>)
    IN  IF m.matched THEN UnaryOf(Previous(m.p), ParserUnary(m.p)) ELSE ParserPrimary(p)

\* The six functions of one shape, from the loosest to the tightest:
\* Parser::or_ (parser.rs:405-417), and_ (419-431), equality (450-460),
\* comparison (462-472), term (474-484) and factor (486-496), each with the
\* token types its loop matches and the Expr it builds.
BinaryLevels ==
    <<[name |-> "or_", types |-> <<"OR">>, expr |-> "Logical"],
      [name |-> "and_", types |-> <<"AND">>, expr |-> "Logical"],
      [name |-> "equality", types |-> <<"BANG_EQUAL", "EQUAL_EQUAL">>, expr |-> "Binary"],
      [name |-> "comparison",
       types |-> <<"GREATER", "GREATER_EQUAL", "LESS", "LESS_EQUAL">>, expr |-> "Binary"],
      [name |-> "term", types |-> <<"MINUS", "PLUS">>, expr |-> "Binary"],
      [name |-> "factor", types |-> <<"SLASH", "STAR">>, expr |-> "Binary"]>>

\* The function of a level: its first operand, then its loop; the operands
\* of factor are Parser::unary.  BinaryOf is the Binary or Logical the loop
\* builds from the expression so far, the operator matched and the right
\* operand; BinaryLoop is the loop from the expression so far.
RECURSIVE ParserBinary(_, _)
ParserBinary(level, p) ==
    LET BinaryOf(left, operator, right) ==
            Parsed(right.p,
                   IF BinaryLevels[level].expr = "Logical"
                   THEN Logical(left.node, operator.token_type, right.node)
                   ELSE Binary(left.node, operator.token_type, right.node))
        RECURSIVE BinaryLoop(_)
        BinaryLoop(r) ==
            IF r.p.exited THEN r
            ELSE LET m == MatchToken(r.p, BinaryLevels[level].types)
                 IN  IF ~m.matched THEN r
                     ELSE BinaryLoop(BinaryOf(r, Previous(m.p),
                                              ParserBinary(level + 1, m.p)))
    IN  IF level > Len(BinaryLevels) THEN ParserUnary(p)
        ELSE BinaryLoop(ParserBinary(level + 1, p))

\* Parser::expression (parser.rs:401-403) is Parser::assignment
\* (parser.rs:433-448), which starts with or_, the first level above.
\* AssignmentRest is assignment after its call of or_ (parser.rs:435-447) and
\* AssignmentOf its end (parser.rs:438-446) from the target, the equal token
\* and the value.
ParserExpression(p) ==
    LET AssignmentOf(expr, equal, value) ==
            IF expr.node.type = "Variable"
            THEN Parsed(value.p, Assign(expr.node.identifier, value.node))
            ELSE Parsed(Error(value.p, equal, "Invalid assignment target."), expr.node)
        AssignmentRest(expr) ==
            IF expr.p.exited THEN expr
            ELSE LET m == MatchToken(expr.p, <<"EQUAL">>)
                 IN  IF ~m.matched THEN expr
                     ELSE AssignmentOf(expr, Previous(m.p), ParserExpression(m.p))
    IN  AssignmentRest(ParserBinary(1, p))

\* Parser::vardecl (parser.rs:278-300); the var token has just been matched.
\* VardeclRest is vardecl after its call of primary (parser.rs:281-299) and
\* VardeclInitialized its else arm (parser.rs:288-299) from the initializer.
ParserVardecl(p) ==
    LET var_operator == Previous(p)
        VardeclInitialized(primary, operator, expr) ==
            Parsed(Consume(expr.p, "SEMICOLON", "Error: missing semicolon at end"),
                   Unary(var_operator.token_type,
                         Binary(primary.node, operator.token_type, expr.node)))
        VardeclRest(primary) ==
            IF primary.p.exited THEN primary
            ELSE LET m == MatchToken(primary.p, <<"EQUAL">>)
                 IN  IF ~m.matched
                     THEN Parsed(Consume(m.p, "SEMICOLON",
                                         "Error: missing semicolon at end"),
                                 Unary(var_operator.token_type, primary.node))
                     ELSE VardeclInitialized(primary, Previous(m.p),
                                             ParserExpression(m.p))
    IN  VardeclRest(ParserPrimary(p))

\* Parser::block (parser.rs:262-269), as Statement::Block (parser.rs:377-378).
\* BlockLoop is its loop (parser.rs:264-266) from the declarations so far,
\* Pushed its push (parser.rs:265) and BlockEnd its end (parser.rs:267-268).
ParserBlock(p) ==
    LET Pushed(stmts, d) == Parsed(d.p, Append(stmts.node, d.node))
        RECURSIVE BlockLoop(_)
        BlockLoop(r) ==
            IF r.p.exited \/ ParserIsAtEnd(r.p) \/ Check(r.p, "RIGHT_BRACE") THEN r
            ELSE BlockLoop(Pushed(r, ParserDeclaration(r.p)))
        BlockEnd(stmts) ==
            Parsed(Consume(stmts.p, "RIGHT_BRACE", "Expect '}' after block."),
                   Block(stmts.node))
    IN  BlockEnd(BlockLoop(Parsed(p, <<>>)))

\* Parser::for_ (parser.rs:302-345).  ForCondition is for_ from the condition
\* (parser.rs:310-344), ForIncrement from the consume(SEMICOLON) after the
\* condition (parser.rs:316-344), ForStatement from the consume(RIGHT_PAREN)
\* after the increment (parser.rs:322-344) and ForWhile its end
\* (parser.rs:324-344) from its statement; Some is Some(node) of the node a
\* call returned.
ParserFor(p) ==
    LET Some(r) == Parsed(r.p, <<r.node>>)
        ForWhile(initializer, condition, expr, statement) ==
            LET block_vec == <<statement.node>> \o
                             (IF expr # <<>> THEN <<ExprStmt(expr[1])>> ELSE <<>>)
                block == Block([i \in 1..Len(block_vec) |->
                                   DeclStatement(block_vec[i])])
                body == WhileStmt(condition, block)
            IN  Parsed(statement.p,
                       IF initializer = <<>> THEN body
                       ELSE Block(<<initializer[1], DeclStatement(body)>>))
        ForStatement(initializer, condition, expr) ==
            IF expr.p.exited THEN expr
            ELSE ForWhile(initializer, condition, expr.node,
                          ParserStatement(Consume(expr.p, "RIGHT_PAREN",
                                                  "Expect ')' after for clause.")))
        ForIncrement(initializer, condition) ==
            IF condition.p.exited THEN condition
            ELSE LET m == MatchToken(Consume(condition.p, "SEMICOLON",
                                             "Expect ';' after loop condition."),
                                     <<"RIGHT_PAREN">>)
                 IN  ForStatement(initializer, condition.node,
                                  IF ~m.matched THEN Some(ParserExpression(m.p))
                                  ELSE Parsed(m.p, <<>>))
        ForCondition(initializer) ==
            IF initializer.p.exited THEN initializer
            ELSE LET m == MatchToken(initializer.p, <<"SEMICOLON">>)
                 IN  ForIncrement(initializer.node,
                                  IF ~m.matched THEN ParserExpression(m.p)
                                  ELSE Parsed(m.p, Literal(Boolean(TRUE))))
        m == MatchToken(Consume(p, "LEFT_PAREN", "Expect '(' after 'for'."),
                        <<"SEMICOLON">>)
    IN  ForCondition(IF ~m.matched THEN Some(ParserDeclaration(m.p))
                     ELSE Parsed(m.p, <<>>))

\* Parser::while_ (parser.rs:347-354).  WhileRest is while_ after its call of
\* expression (parser.rs:349-353) and WhileOf the While (parser.rs:350-353)
\* from its statement.
ParserWhile(p) ==
    LET WhileOf(condition, block) == Parsed(block.p, WhileStmt(condition, block.node))
        WhileRest(expr) ==
            IF expr.p.exited THEN expr
            ELSE WhileOf(expr.node,
                         ParserStatement(Consume(expr.p, "RIGHT_PAREN",
                                                 "Expect ')' after while condition.")))
    IN  WhileRest(ParserExpression(Consume(p, "LEFT_PAREN",
                                           "Expect '(' after 'while'.")))

\* Parser::if_ (parser.rs:356-369).  IfRest is if_ after its call of
\* expression (parser.rs:358-368), IfElse after its then branch
\* (parser.rs:361-368) and IfOf the If (parser.rs:364-368) from its else
\* branch.
ParserIf(p) ==
    LET Some(r) == Parsed(r.p, <<r.node>>)
        IfOf(condition, then_branch, else_branch) ==
            Parsed(else_branch.p, IfStmt(condition, then_branch, else_branch.node))
        IfElse(condition, then_branch) ==
            IF then_branch.p.exited THEN then_branch
            ELSE LET m == MatchToken(then_branch.p, <<"ELSE">>)
                 IN  IfOf(condition, then_branch.node,
                          IF m.matched THEN Some(ParserStatement(m.p))
                          ELSE Parsed(m.p, <<>>))
        IfRest(expr) ==
            IF expr.p.exited THEN expr
            ELSE IfElse(expr.node,
                        ParserStatement(Consume(expr.p, "RIGHT_PAREN",
                                                "Expect ')' after if condition.")))
    IN  IfRest(ParserExpression(Consume(p, "LEFT_PAREN", "Expect '(' after 'if'.")))

\* Parser::statement (parser.rs:371-399).  ExpressionStatement is the print
\* statement and the expression statement (parser.rs:373-375, 396-398) from
\* the expression.
ParserStatement(p) ==
    LET ExpressionStatement(type, expr) ==
            Parsed(Consume(expr.p, "SEMICOLON", "Error: missing semicolon at end"),
                   IF type = "PrintStmt" THEN PrintStmt(expr.node)
                   ELSE ExprStmt(expr.node))
    IN  CASE Check(p, "PRINT") ->
               ExpressionStatement("PrintStmt", ParserExpression(ParserAdvance(p)))
          [] Check(p, "LEFT_BRACE") -> ParserBlock(ParserAdvance(p))
          [] Check(p, "IF") -> ParserIf(ParserAdvance(p))
          [] Check(p, "WHILE") -> ParserWhile(ParserAdvance(p))
          [] Check(p, "FOR") -> ParserFor(ParserAdvance(p))
          [] OTHER -> ExpressionStatement("ExprStmt", ParserExpression(p))

\* Parser::declaration (parser.rs:271-276).  DeclarationOf is
\* Declaration::VarDecl and Declaration::Statement of the node a call returned
\* (parser.rs:273, 275).
ParserDeclaration(p) ==
    LET DeclarationOf(type, r) ==
            Parsed(IF ~r.p.exited /\ r.p.current = p.current
                   THEN [r.p EXCEPT !.stalled = TRUE] ELSE r.p,
                   IF type = "VarDecl" THEN DeclVarDecl(r.node)
                   ELSE DeclStatement(r.node))
        m == MatchToken(p, <<"VAR">>)
    IN  IF m.matched THEN DeclarationOf("VarDecl", ParserVardecl(m.p))
        ELSE DeclarationOf("Statement", ParserStatement(p))

(***************************************************************************)
(* The parse and evaluate commands on a source text (main.rs:62-98): the   *)
(* text is scanned one scan_token at a time, Parser::parse takes one       *)
(* declaration after the other, and evaluate hands the declarations to     *)
(* Interpreter::interpret.                                                 *)
(***************************************************************************)
\* Words of one source text beyond the words of the templates below.
MaxWords == 3

\* The text of a keyword of the table of token.rs.
Keyword(token_type) == CHOOSE w \in DOMAIN Keywords : Keywords[w] = token_type

\* The words of a source text, separated by spaces.
RECURSIVE SourceOf(_)
SourceOf(words) ==
    IF words = <<>> THEN <<>>
    ELSE IF Len(words) = 1 THEN Head(words)
    ELSE Head(words) \o <<" ">> \o SourceOf(Tail(words))

\* The clauses of for statements, each present or omitted.
ForClauses ==
    [initializers |-> {<<<<";">>>>,
                       <<Keyword("VAR"), <<"x">>, <<"=">>, <<"1">>, <<";">>>>,
                       <<<<"x">>, <<"=">>, <<"1">>, <<";">>>>},
     conditions |-> {<<>>, <<<<"x">>, <<"<">>, <<"2">>>>},
     increments |-> {<<>>, <<<<"x">>, <<"=">>, <<"x">>, <<"+">>, <<"1">>>>},
     bodies |-> {<<Keyword("PRINT"), <<"x">>, <<";">>>>,
                 <<Keyword("PRINT"), <<"1">>, <<";">>>>}]

\* The source texts: for statements of the clauses above, var declarations
\* with an identifier or another primary after var, blocks whose declarations
\* end with or without their semicolon and brace, a text of one space (its
\* tokens are EOF alone), and every sequence of at most MaxWords words.
ParseSources ==
    LET StringA == <<"\"", "a", "\"">>
        Words == {Keyword("VAR"), Keyword("PRINT"), Keyword("FOR"), <<"x">>, <<"1">>,
                  StringA, <<"=">>, <<";">>, <<"<">>, <<")">>}
        ForWords ==
            {<<Keyword("FOR"), <<"(">>>> \o i \o c \o <<<<";">>>> \o e \o <<<<")">>>> \o b :
                i \in ForClauses.initializers, c \in ForClauses.conditions,
                e \in ForClauses.increments, b \in ForClauses.bodies}
        VarNames == {<<<<"x">>>>, <<<<"1">>>>, <<StringA>>, <<<<"(">>, <<"x">>, <<")">>>>}
        VarInitializers == {<<>>, <<<<"=">>, <<"2">>>>}
        VarWords ==
            {<<Keyword("VAR")>> \o n \o i \o <<<<";">>>> \o rest :
                n \in VarNames, i \in VarInitializers,
                rest \in {<<>>, <<Keyword("PRINT"), <<"x">>, <<";">>>>}}
        BlockWords ==
            {<<<<"{">>>> \o d \o e \o close :
                d \in {<<>>, <<<<"x">>>>, <<<<"x">>, <<";">>>>,
                       <<Keyword("VAR"), <<"x">>, <<";">>>>},
                e \in {<<>>, <<<<"1">>>>, <<Keyword("PRINT"), <<"x">>, <<";">>>>},
                close \in {<<>>, <<<<"}">>>>, <<<<"}">>, <<"x">>, <<";">>>>}}
        FreeWords == UNION {[1..n -> Words] : n \in 1..MaxWords}
    IN  {SourceOf(w) : w \in ForWords \cup VarWords \cup BlockWords \cup FreeWords}
            \cup {<<" ">>}

ParseInit ==
    /\ command \in {"parse", "evaluate"}
    /\ empty = FALSE
    /\ pc = "run"
    /\ has_error = FALSE
    /\ nDecls = 0
    /\ k = 0
    /\ environment = EnvironmentNew
    /\ results = <<>>
    /\ clock = 0
    /\ stdout = <<>>
    /\ exit_status = ExitOk
    /\ error = ""
    /\ ended = ""
    /\ last = NoLast
    /\ declared = NoneDeclared
    /\ writes = EmptyMap
    /\ \E source \in ParseSources : scanner = ScannerNew(source)
    /\ parser = ParserNew(<<>>)

\* main.rs:66, 79: the Parser is built on the tokens of the scanner.
ParserBegin ==
    /\ pc = "scanned" /\ command \in {"parse", "evaluate"}
    /\ parser' = ParserNew(scanner.tokens)
    /\ pc' = "parse"
    /\ UNCHANGED <<command, empty, has_error, nDecls, k, environment, results, clock,
                   stdout, exit_status, error, last, declared, writes, ended, scanner>>

\* One turn of the loop of Parser::parse (parser.rs:256-258): the declaration
\* parsed is pushed, unless Parser::primary ended the process with 65
\* (parser.rs:561-562); each Lox::error on the way has set has_error.
ParseDeclaration ==
    LET Declared(d) ==
            /\ parser' = IF d.p.exited THEN d.p
                         ELSE [d.p EXCEPT !.stmts = Append(@, d.node)]
            /\ has_error' = (has_error \/ d.p.reports # parser.reports)
            /\ IF d.p.exited
               THEN IF d.p.panicked THEN Exit("panic", ExitPanic)
                    ELSE Exit("primary", ExitSyntax)
               ELSE UNCHANGED <<pc, exit_status, ended>>
    IN  /\ pc = "parse" /\ ~ParserIsAtEnd(parser)
        /\ Declared(ParserDeclaration(parser))
        /\ UNCHANGED <<command, empty, nDecls, k, environment, results, clock, stdout,
                       error, last, declared, writes, scanner>>

\* Parser::parse returns its declarations (parser.rs:259).
ParseReturn ==
    /\ pc = "parse" /\ ParserIsAtEnd(parser)
    /\ nDecls' = Len(parser.stmts)
    /\ pc' = "parsed"
    /\ UNCHANGED <<command, empty, has_error, k, environment, results, clock, stdout,
                   exit_status, error, last, declared, writes, ended, scanner, parser>>

\* The closure of Interpreter::interpret on the next declaration of the
\* parser (interpreter.rs:46-52).
InterpretParsed ==
    /\ pc = "interpret" /\ k < nDecls
    /\ Took(parser.stmts[k + 1],
            InterpretDecl(parser.stmts[k + 1], State(environment, <<>>, clock, <<>>)))

ParseNext ==
    \/ ScanTokensStep
    \/ ScanTokensEnd
    \/ ParserBegin
    \/ ParseDeclaration
    \/ ParseReturn
    \/ ParseFinish
    \/ EvaluateBegin
    \/ InterpretParsed
    \/ Collect
    \/ EvaluateOk
    \/ EvaluateErr

ParseSpec == ParseInit /\ [][ParseNext]_vars


\* The clauses of the for statements above with the nodes the specification
\* gives them: an initializer and an increment as an Option, an omitted
\* condition as the literal true.
ForInitializerNode(words) ==
    IF words = <<<<";">>>> THEN <<>>
    ELSE IF Head(words) = Keyword("VAR")
         THEN <<VarDeclInit(Variable("x"), Literal(Number(1)))>>
         ELSE <<DeclStatement(ExprStmt(Assign("x", Literal(Number(1)))))>>
ForConditionNode(words) ==
    IF words = <<>> THEN Literal(Boolean(TRUE))
    ELSE Binary(Variable("x"), "LESS", Literal(Number(2)))
ForIncrementNode(words) ==
    IF words = <<>> THEN <<>>
    ELSE <<DeclStatement(ExprStmt(Assign("x", Binary(Variable("x"), "PLUS",
                                                     Literal(Number(1))))))>>
ForBodyNode(words) ==
    PrintStmt(IF words[2] = <<"x">> THEN Variable("x") ELSE Literal(Number(1)))

\* The desugaring the specification states: the initializer, when there is
\* one, then a while statement on the condition whose body is the original
\* body followed by the increment, when there is one.
Desugared(i, c, e, b) ==
    LET while_ == DeclStatement(WhileStmt(ForConditionNode(c),
                      Block(<<DeclStatement(ForBodyNode(b))>> \o ForIncrementNode(e))))
    IN  IF ForInitializerNode(i) = <<>> THEN while_
        ELSE DeclStatement(Block(ForInitializerNode(i) \o <<while_>>))

ForSource(i, c, e, b) ==
    SourceOf(<<Keyword("FOR"), <<"(">>>> \o i \o c \o <<<<";">>>> \o e \o <<<<")">>>> \o b)

\* C17: a for statement with any of its clauses omitted parses without a
\* reported error and to the desugaring above; in particular for (;;) body
\* is accepted as a loop on the literal true.
C17_ForClausesMayBeOmitted ==
    \A i \in ForClauses.initializers, c \in ForClauses.conditions,
       e \in ForClauses.increments, b \in ForClauses.bodies :
        (pc = "parsed" /\ scanner.source = ForSource(i, c, e, b))
        => /\ parser.reports = <<>>
           /\ ~has_error
           /\ parser.stmts = <<Desugared(i, c, e, b)>>

\* A var declaration node names a variable: alone, or as the left side of
\* its initializer.
NamesVariable(decl) ==
    /\ decl.expr.type = "Unary"
    /\ \/ decl.expr.right.type = "Variable"
       \/ /\ decl.expr.right.type = "Binary"
          /\ decl.expr.right.left.type = "Variable"

\* C18: every VarDecl the parser produces from a source it accepts without a
\* reported error carries a Variable name, and executing a parsed VarDecl
\* never reaches the unreachable branch of visit_var_decl.
C18_VarDeclNamesVariable ==
    /\ (pc = "parsed" /\ ~has_error)
       => \A n \in 1..Len(parser.stmts) :
             parser.stmts[n].type = "VarDecl" => NamesVariable(parser.stmts[n])
    /\ (last.taken /\ ~has_error /\ last.decl.type = "VarDecl")
       => last.res.tag # "Panic"


\* The Parser stands on one of its tokens, and the last of them is EOF; the
\* loop of Parser::parse has taken no more turns than the cursor has passed
\* tokens, so it takes fewer turns than there are tokens.
CursorInBounds ==
    parser.tokens # <<>> =>
        /\ parser.tokens[Len(parser.tokens)].token_type = "EOF"
        /\ parser.current \in 0..(Len(parser.tokens) - 1)
        /\ Len(parser.stmts) <= parser.current

\* A turn of the loop of Parser::parse: the call of declaration() has left
\* the cursor further on, with its declaration pushed, or has ended the
\* process with status 65.
DeclarationAdvancesOrAborts ==
    (pc = "parse" /\ pc' # "parsed") =>
        \/ /\ pc' = "parse"
           /\ parser'.current > parser.current
           /\ Len(parser'.stmts) = Len(parser.stmts) + 1
        \/ /\ pc' = "exited"
           /\ exit_status' = ExitSyntax
           /\ parser'.exited

\* C21: on the tokens of any source text, which end in EOF, the cursor stays
\* on a token and never passes EOF; no call of declaration(), at the top level
\* or nested in a block or a for statement, returns with the cursor where it
\* found it unless the process has been ended with 65, also when consume()
\* has reported a missing token without advancing; previous() is never
\* called at cursor 0 (every call of it follows an advance() whose own
\* previous() saw the same cursor).  Each turn of Parser::parse moving the
\* cursor on below the number of tokens, the loop ends.
C21_ParserTerminatesInBounds ==
    /\ [](CursorInBounds /\ ~parser.stalled /\ ~parser.panicked)
    /\ [][DeclarationAdvancesOrAborts]_vars

\* A block is parsed to the end of the text: its two declarations each lack
\* their semicolon and the block its brace, consume() has reported the three
\* of them without advancing (the first on the token 1, the others on EOF),
\* and the cursor stands on EOF.
C21_Witness ==
    /\ pc = "parsed"
    /\ scanner.source = <<"{", " ", "x", " ", "1">>
    /\ Len(parser.reports) = 3
    /\ parser.reports[1].where = " at '1' "
    /\ parser.reports[2].where = " at end "
    /\ parser.reports[3] = [line |-> 1, where |-> " at end ",
                            message |-> "Expect '}' after block."]
    /\ parser.current = Len(parser.tokens) - 1
    /\ Len(parser.stmts) = 1
    /\ Len(parser.stmts[1].stmt.decls) = 2


\* C22: on two literal operands of the same runtime type, whichever type it
\* is, == yields true exactly when the two values are the same and != yields
\* the negation, and neither raises a RuntimeError.  The code compares by
\* value only two Numbers and two Strings.
C22_SameTypeEqualityByValue ==
    (/\ ~has_error
     /\ LastIsStatement
     /\ LastStmt.type = "PrintStmt"
     /\ LastStmt.expr \in EqualityExprs
     /\ LastStmt.expr.left.value.t = LastStmt.expr.right.value.t)
    => /\ last.res.tag = "Ok"
       /\ LastYielded =
            Literal(Boolean((LastStmt.expr.operator = "EQUAL_EQUAL")
                            <=> (LastStmt.expr.left.value = LastStmt.expr.right.value)))

=============================================================================
